---- MODULE Spec2Model ----
(***************************************************************************)
(* A model of the Zapier Lighthouse WASM audit engine                      *)
(* (src/src-wasm/src/lib.rs, src/src-wasm/src/audit_schema_v1.rs).         *)
(*                                                                         *)
(* Conventions                                                             *)
(*   - f32 money is fixed point: an integer number of 1/100000 dollars     *)
(*     (TLC integers are 32 bits wide).  The three non-finite f32 values   *)
(*     are integers outside the range of the finite ones: PosInf above and *)
(*     NegInf below every finite value, NaN compared by F32Less only.      *)
(*   - Rates are integer percentages (0.20 is 20).                         *)
(*   - A Rust String that the code inspects character by character is a    *)
(*     sequence of one-character strings.                                  *)
(*   - Option<T>: None is the empty sequence, Some(x) is <<x>>.            *)
(*   - A HashMap is the sequence of its values in the iteration order of   *)
(*     one call; that order is not fixed by the input.                     *)
(***************************************************************************)
EXTENDS Naturals, Integers, Sequences, FiniteSets, TLC

VARIABLES
    call, outcome,                      \* the public boundary: last request and what it returned
    plan, actual_usage, pricing,        \* ZapierPricing::resolve
    zap, price_per_task, flags,         \* one workflow under the detectors
    ordered_nodes, current_id, pc,      \* the chain walk of detect_late_filter_placement
    first_run, second_run,              \* two invocations on the same input
    report, validation, gate            \* an AuditResultV1, validate on it, the end of analyze_zaps

vars == <<call, outcome, plan, actual_usage, pricing, zap, price_per_task, flags,
          ordered_nodes, current_id, pc, first_run, second_run, report, validation, gate>>

None == <<>>
Some(x) == <<x>>

\* The value of a variable in a specification that does not use it.
Idle == <<>>

\* A usage far above every tier (TLC integers end at 2^31 - 1).
HugeUsage == 1000 * 2000000

\* ------------------------------------------------------------------------
\* f32 values
\* ------------------------------------------------------------------------
PosInf == 2 * 1000000000
NegInf == 0 - PosInf
NaN == PosInf + 1

is_nan(v) == v = NaN

is_infinite(v) == v \in {PosInf, NegInf}

\* a < b on f32: false as soon as one side is NaN
F32Less(a, b) == ~is_nan(a) /\ ~is_nan(b) /\ a < b

guard_nan_keep(value) == value

guard_nan(value) == IF is_nan(value) \/ is_infinite(value) THEN 0 ELSE value

\* ------------------------------------------------------------------------
\* Pricing tiers: <<tasks, price in cents>>
\* ------------------------------------------------------------------------
PROFESSIONAL ==
    << <<750, 1999>>, <<1500, 3900>>, <<2000, 4900>>, <<5000, 8900>>,
       <<10000, 12900>>, <<20000, 18900>>, <<50000, 28900>>, <<100000, 48900>>,
       <<200000, 76900>>, <<300000, 106900>>, <<400000, 126900>>,
       <<500000, 149900>>, <<750000, 199900>>, <<1000000, 219900>>,
       <<1500000, 299900>>, <<1750000, 319900>>, <<2000000, 338900>> >>

TEAM ==
    << <<2000, 6900>>, <<5000, 11900>>, <<10000, 16900>>, <<20000, 24900>>,
       <<50000, 39900>>, <<100000, 59900>>, <<200000, 99900>>, <<300000, 119900>>,
       <<400000, 139900>>, <<500000, 179900>>, <<750000, 219900>>,
       <<1000000, 249900>>, <<1500000, 339900>>, <<1750000, 379900>>,
       <<2000000, 399900>> >>

ZapierPlan == {"Professional", "Team"}

TiersOf(p) == IF p = "Professional" THEN PROFESSIONAL ELSE TEAM

\* Iterator::find over a tier table: the index of the first tier accepted by
\* the closure, 0 when there is none.
RECURSIVE FindTier(_, _, _, _)
FindTier(tiers, usage, strict, i) ==
    IF i > Len(tiers) THEN 0
    ELSE IF (IF strict THEN tiers[i][1] > usage ELSE tiers[i][1] >= usage) THEN i
    ELSE FindTier(tiers, usage, strict, i + 1)

\* The division without its guard: x / 0.0 is infinite, 0.0 / 0.0 is NaN
CostPerTask_unguarded(tier_tasks, tier_price) ==
    IF tier_tasks > 0 THEN (tier_price * 1000) \div tier_tasks
    ELSE IF tier_price = 0 THEN NaN ELSE PosInf

\* tier_price / tier_tasks, in 1/100000 dollars per task
CostPerTask(tier_tasks, tier_price) ==
    IF tier_tasks > 0 THEN (tier_price * 1000) \div tier_tasks ELSE 0

ResolveIn(tiers, p, usage, strict) ==
    LET i == FindTier(tiers, usage, strict, 1)
    IN  IF i = 0 /\ Len(tiers) = 0
        THEN \* tiers.last().unwrap() on an empty table
             [panicked |-> TRUE, plan |-> p, tier_tasks |-> 0, tier_price |-> 0,
              cost_per_task |-> 0, actual_usage |-> usage]
        ELSE LET tier == IF i = 0 THEN tiers[Len(tiers)] ELSE tiers[i]
             IN  [panicked |-> FALSE, plan |-> p, tier_tasks |-> tier[1],
                  tier_price |-> tier[2],
                  cost_per_task |-> CostPerTask(tier[1], tier[2]),
                  actual_usage |-> usage]

resolve_strict(p, usage) == ResolveIn(TiersOf(p), p, usage, TRUE)

resolve(p, usage) == ResolveIn(TiersOf(p), p, usage, FALSE)

default_fallback == resolve("Professional", 2000)

\* ------------------------------------------------------------------------
\* Strings as sequences of characters
\* ------------------------------------------------------------------------
UpperChars == <<"A", "B", "C", "D", "E", "F", "G", "H", "I", "J", "K", "L", "M", "N", "O", "P", "Q", "R", "S", "T", "U", "V", "W", "X", "Y", "Z">>

LowerChars == <<"a", "b", "c", "d", "e", "f", "g", "h", "i", "j", "k", "l", "m", "n", "o", "p", "q", "r", "s", "t", "u", "v", "w", "x", "y", "z">>

is_uppercase(c) == \E i \in 1..Len(UpperChars) : UpperChars[i] = c

is_lowercase(c) == \E i \in 1..Len(LowerChars) : LowerChars[i] = c

CharToLower(c) ==
    IF is_uppercase(c)
    THEN LowerChars[CHOOSE i \in 1..Len(UpperChars) : UpperChars[i] = c]
    ELSE c

to_lowercase(s) == [i \in 1..Len(s) |-> CharToLower(s[i])]

\* str::contains: pat occurs in s as a contiguous substring
contains(s, pat) ==
    \E k \in 0..(Len(s) - Len(pat)) : \A i \in 1..Len(pat) : s[k + i] = pat[i]

ends_with(s, suffix) ==
    /\ Len(s) >= Len(suffix)
    /\ \A i \in 1..Len(suffix) : s[Len(s) - Len(suffix) + i] = suffix[i]

\* str::trim_end_matches: removes the suffix as often as it occurs
RECURSIVE trim_end_matches(_, _)
trim_end_matches(s, suffix) ==
    IF Len(suffix) > 0 /\ ends_with(s, suffix)
    THEN trim_end_matches(SubSeq(s, 1, Len(s) - Len(suffix)), suffix)
    ELSE s

\* s.split('@').next(): the text before the first '@'
RECURSIVE BeforeAt(_, _)
BeforeAt(s, i) ==
    IF i > Len(s) \/ s[i] = "@" THEN SubSeq(s, 1, i - 1) ELSE BeforeAt(s, i + 1)

RECURSIVE SpaceWords(_, _, _, _)
SpaceWords(s, i, result, prev_was_lower) ==
    IF i > Len(s) THEN result
    ELSE LET c == s[i]
             spaced == IF is_uppercase(c) /\ prev_was_lower /\ Len(result) > 0
                       THEN Append(result, " ") ELSE result
         IN  SpaceWords(s, i + 1, Append(spaced, c), is_lowercase(c))

parse_app_name(selected_api) ==
    LET base_name == BeforeAt(selected_api, 1)
        name_without_suffix ==
            trim_end_matches(trim_end_matches(base_name, <<"C", "L", "I", "A", "P", "I">>), <<"A", "P", "I">>)
    IN  SpaceWords(name_without_suffix, 1, <<>>, FALSE)

polling_apps ==
    << <<"R", "S", "S">>,
       <<"W", "o", "r", "d", "P", "r", "e", "s", "s">>,
       <<"G", "o", "o", "g", "l", "e", "S", "h", "e", "e", "t", "s">>,
       <<"G", "o", "o", "g", "l", "e", "F", "o", "r", "m", "s">>,
       <<"A", "i", "r", "t", "a", "b", "l", "e">>,
       <<"E", "x", "c", "e", "l">>,
       <<"D", "r", "o", "p", "b", "o", "x">>,
       <<"G", "o", "o", "g", "l", "e", "D", "r", "i", "v", "e">>,
       <<"O", "n", "e", "D", "r", "i", "v", "e">>,
       <<"M", "y", "S", "Q", "L">>,
       <<"P", "o", "s", "t", "g", "r", "e", "S", "Q", "L">>,
       <<"S", "Q", "L", "S", "e", "r", "v", "e", "r">>,
       <<"M", "o", "n", "g", "o", "D", "B">> >>

STR_filter == <<"f", "i", "l", "t", "e", "r">>

\* ------------------------------------------------------------------------
\* SpecPricing: resolve applied to every plan and to the usages around every
\* tier boundary, 0 and a usage a thousand times the largest tier.
\* ------------------------------------------------------------------------
Caps(tiers) == {tiers[i][1] : i \in 1..Len(tiers)}

UsageInputs ==
    {0, HugeUsage} \cup
    UNION {{c - 1, c, c + 1} : c \in Caps(PROFESSIONAL) \cup Caps(TEAM)}

IdleBoundary == call = Idle /\ outcome = Idle
IdlePricing == plan = Idle /\ actual_usage = Idle /\ pricing = Idle
IdleDetect == zap = Idle /\ price_per_task = Idle /\ flags = Idle
IdleWalk == ordered_nodes = Idle /\ current_id = Idle /\ pc = Idle
IdleRuns == first_run = Idle /\ second_run = Idle
IdleReport == report = Idle /\ validation = Idle /\ gate = Idle

InitPricing ==
    /\ plan \in ZapierPlan
    /\ actual_usage \in UsageInputs
    /\ pricing = None
    /\ IdleBoundary /\ IdleDetect /\ IdleWalk /\ IdleRuns /\ IdleReport

Resolve ==
    /\ pricing = None
    /\ pricing' = Some(resolve(plan, actual_usage))
    /\ UNCHANGED <<call, outcome, plan, actual_usage, zap, price_per_task, flags,
                   ordered_nodes, current_id, pc, first_run, second_run, report, validation, gate>>

NextPricing == Resolve

SpecPricing == InitPricing /\ [][NextPricing]_vars

\* C1: for every plan and every actual_usage, resolve returns the first
\* (smallest-capacity) tier of the plan's table whose capacity is >= the usage;
\* when the usage exceeds every capacity it returns the last (largest) tier;
\* it never fails.
C1_ResolveSmallestFit ==
    pricing # None =>
        LET tiers == TiersOf(plan)
            fits == {i \in 1..Len(tiers) : tiers[i][1] >= actual_usage}
            got == pricing[1]
        IN  /\ ~got.panicked
            /\ got.plan = plan
            /\ \E i \in 1..Len(tiers) :
                  /\ got.tier_tasks = tiers[i][1]
                  /\ got.tier_price = tiers[i][2]
                  /\ IF fits = {}
                     THEN /\ i = Len(tiers)
                          /\ \A j \in 1..Len(tiers) : tiers[j][1] <= tiers[i][1]
                     ELSE /\ i \in fits
                          /\ \A j \in fits : j >= i /\ tiers[j][1] >= tiers[i][1]

C1_Witness ==
    /\ pricing # None
    /\ ~pricing[1].panicked
    /\ actual_usage > 2000000
    /\ pricing[1].tier_tasks = 2000000

\* ------------------------------------------------------------------------
\* Workflows, usage statistics and the three detectors
\* ------------------------------------------------------------------------
FALLBACK_MONTHLY_RUNS == 500
POLLING_REDUCTION_RATE == 20
LATE_FILTER_FALLBACK_RATE == 30

\* runs * steps as u32; the products of the model stay far below 2^32
calculate_task_volume(runs, steps) == runs * steps

\* Iterator::find over zap.nodes.values(): of the positions (in the iteration
\* order of the map) whose node the closure accepts, the first; 0 when none.
FindNode(hits) ==
    IF hits = {} THEN 0 ELSE CHOOSE i \in hits : \A j \in hits : i <= j

\* A percentage kept as the fraction num/den, so that > 10.0 and > 50.0 are exact.
RateAbove(rate, percent) == rate.num > percent * rate.den

\* guard_nan on an f32 kept as the fraction num/den: a division by zero
\* gives NaN (0/0) or an infinity, which become 0
guard_nan_ratio(value) == IF value.den = 0 THEN [num |-> 0, den |-> 1] ELSE value

\* UsageStats whose error rate is taken over the successful runs
UsageStats_rate_over_successes(total_runs, success_count, error_count) ==
    [total_runs |-> total_runs, success_count |-> success_count,
     error_count |-> error_count,
     error_rate |-> IF total_runs > 0
                    THEN guard_nan_ratio([num |-> error_count * 100, den |-> success_count])
                    ELSE [num |-> 0, den |-> 1]]

\* UsageStats as parse_csv_files leaves it for a workflow with these counts:
\* an entry exists only once a row was counted, so total_runs >= 1.
UsageStats(total_runs, success_count, error_count) ==
    [total_runs |-> total_runs, success_count |-> success_count,
     error_count |-> error_count,
     error_rate |-> IF total_runs > 0
                    THEN guard_nan_ratio([num |-> error_count * 100, den |-> total_runs])
                    ELSE [num |-> 0, den |-> 1]]

\* An EfficiencyFlag whose annual savings repeat the monthly savings
Flag_annual_unscaled(z, flag_type, severity, monthly_savings, is_fallback, confidence, details) ==
    [zap_id |-> z.id, flag_type |-> flag_type, severity |-> severity,
     estimated_monthly_savings |-> monthly_savings,
     estimated_annual_savings |-> monthly_savings,
     is_fallback |-> is_fallback, confidence |-> confidence, details |-> details]

Flag(z, flag_type, severity, monthly_savings, is_fallback, confidence, details) ==
    [zap_id |-> z.id, flag_type |-> flag_type, severity |-> severity,
     estimated_monthly_savings |-> monthly_savings,
     estimated_annual_savings |-> monthly_savings * 12,
     is_fallback |-> is_fallback, confidence |-> confidence, details |-> details]

\* detect_error_loop flagging from an error rate of 10% on (>= for >)
detect_error_loop_from_10(z, price) ==
    IF z.usage_stats = None THEN None
    ELSE LET stats == z.usage_stats[1]
         IN  IF stats.total_runs > 0 /\ stats.error_rate.num >= 10 * stats.error_rate.den
             THEN LET steps_per_run == Len(z.nodes)
                      wasted_tasks == calculate_task_volume(stats.error_count, steps_per_run)
                      monthly_savings == guard_nan(wasted_tasks * price)
                  IN  Some(Flag(z, "error_loop",
                                IF RateAbove(stats.error_rate, 50) THEN "high" ELSE "medium",
                                monthly_savings, FALSE, "high",
                                [error_count |-> stats.error_count,
                                 total_runs |-> stats.total_runs,
                                 wasted_tasks |-> wasted_tasks]))
             ELSE None

\* detect_error_loop with severity high from an error rate of 50% on (>= for >)
detect_error_loop_high_from_50(z, price) ==
    IF z.usage_stats = None THEN None
    ELSE LET stats == z.usage_stats[1]
         IN  IF stats.total_runs > 0 /\ RateAbove(stats.error_rate, 10)
             THEN LET steps_per_run == Len(z.nodes)
                      wasted_tasks == calculate_task_volume(stats.error_count, steps_per_run)
                      monthly_savings == guard_nan(wasted_tasks * price)
                  IN  Some(Flag(z, "error_loop",
                                IF stats.error_rate.num >= 50 * stats.error_rate.den THEN "high" ELSE "medium",
                                monthly_savings, FALSE, "high",
                                [error_count |-> stats.error_count,
                                 total_runs |-> stats.total_runs,
                                 wasted_tasks |-> wasted_tasks]))
             ELSE None

detect_error_loop(z, price) ==
    IF z.usage_stats = None THEN None
    ELSE LET stats == z.usage_stats[1]
         IN  IF stats.total_runs > 0 /\ RateAbove(stats.error_rate, 10)
             THEN LET steps_per_run == Len(z.nodes)
                      wasted_tasks == calculate_task_volume(stats.error_count, steps_per_run)
                      monthly_savings == guard_nan(wasted_tasks * price)
                  IN  Some(Flag(z, "error_loop",
                                IF RateAbove(stats.error_rate, 50) THEN "high" ELSE "medium",
                                monthly_savings, FALSE, "high",
                                [error_count |-> stats.error_count,
                                 total_runs |-> stats.total_runs,
                                 wasted_tasks |-> wasted_tasks]))
             ELSE None

is_filter(node) ==
    \/ contains(to_lowercase(node.action), STR_filter)
    \/ (node.title # None /\ contains(to_lowercase(node.title[1]), STR_filter))

\* The position after the current one in the chain: the first node, in
\* iteration order, whose parent_id is Some(current).
NextInChain(nodes, current) ==
    FindNode({i \in 1..Len(nodes) : nodes[i].parent_id = Some(current)})

\* while let Some(node) = find(parent_id == Some(current_id)) { push; current_id = node.id }
RECURSIVE FollowChain(_, _, _)
FollowChain(nodes, ordered, current) ==
    LET next == NextInChain(nodes, current)
    IN  IF next = 0 THEN ordered
        ELSE FollowChain(nodes, Append(ordered, nodes[next]), nodes[next].id)

\* The savings of a late filter: <<monthly_savings, is_fallback, rejection rate>>
LateFilterSavings(z, price, actions_before_filter) ==
    IF z.usage_stats # None
    THEN LET stats == z.usage_stats[1]
         IN  IF stats.total_runs > 0
             THEN LET rate == IF stats.success_count < stats.total_runs
                              THEN [num |-> stats.total_runs - stats.success_count,
                                    den |-> stats.total_runs]
                              ELSE [num |-> LATE_FILTER_FALLBACK_RATE, den |-> 100]
                      wasted_tasks_per_month ==
                          guard_nan((stats.total_runs * actions_before_filter * rate.num)
                                    \div rate.den)
                  IN  [savings |-> guard_nan(wasted_tasks_per_month * price),
                       is_fallback |-> FALSE, rate |-> rate]
             ELSE [savings |-> 0, is_fallback |-> TRUE,
                   rate |-> [num |-> 0, den |-> 1]]
    ELSE LET wasted_tasks ==
                 guard_nan((FALLBACK_MONTHLY_RUNS * actions_before_filter
                            * LATE_FILTER_FALLBACK_RATE) \div 100)
         IN  [savings |-> guard_nan(wasted_tasks * price), is_fallback |-> TRUE,
              rate |-> [num |-> LATE_FILTER_FALLBACK_RATE, den |-> 100]]

\* A confidence that looks at the savings only
LateFilterConfidence_ignores_fallback(s) ==
    IF s.savings > 0 THEN "high"
    ELSE IF s.savings = 0 THEN "low"
    ELSE "medium"

\* The confidence of a late-filter finding with these savings
LateFilterConfidence(s) ==
    IF ~s.is_fallback /\ s.savings > 0 THEN "high"
    ELSE IF s.savings = 0 THEN "low"
    ELSE "medium"

\* The scan without its last condition: every filter past index 1 is flagged,
\* whether or not a write-type step runs before it.
RECURSIVE ScanForAnyFilter(_, _, _, _)
ScanForAnyFilter(z, price, ordered, k) ==
    IF k > Len(ordered) THEN None
    ELSE LET index == k - 1
             actions_before_filter ==
                 Cardinality({i \in 2..(k - 1) : ordered[i].type_of = "write"})
         IN  IF is_filter(ordered[k]) /\ index > 1
             THEN LET s == LateFilterSavings(z, price, actions_before_filter)
                      confidence == LateFilterConfidence(s)
                  IN  Some(Flag(z, "late_filter_placement", "high", s.savings,
                                s.is_fallback, confidence,
                                [position |-> index + 1,
                                 actions_before_filter |-> actions_before_filter,
                                 filter_rejection_rate |-> s.rate]))
             ELSE ScanForAnyFilter(z, price, ordered, k + 1)

\* for (index, node) in ordered_nodes.iter().enumerate(): k is index + 1
RECURSIVE ScanForLateFilter(_, _, _, _)
ScanForLateFilter(z, price, ordered, k) ==
    IF k > Len(ordered) THEN None
    ELSE LET index == k - 1
             actions_before_filter ==
                 Cardinality({i \in 2..(k - 1) : ordered[i].type_of = "write"})
         IN  IF is_filter(ordered[k]) /\ index > 1 /\ actions_before_filter > 0
             THEN LET s == LateFilterSavings(z, price, actions_before_filter)
                      confidence == LateFilterConfidence(s)
                  IN  Some(Flag(z, "late_filter_placement", "high", s.savings,
                                s.is_fallback, confidence,
                                [position |-> index + 1,
                                 actions_before_filter |-> actions_before_filter,
                                 filter_rejection_rate |-> s.rate]))
             ELSE ScanForLateFilter(z, price, ordered, k + 1)

detect_late_filter_placement(z, price) ==
    LET t == FindNode({i \in 1..Len(z.nodes) : z.nodes[i].parent_id = None})
    IN  IF t = 0 THEN None
        ELSE ScanForLateFilter(z, price,
                               FollowChain(z.nodes, <<z.nodes[t]>>, z.nodes[t].id), 1)

\* The savings of a polling trigger: <<monthly_savings, has_execution_data>>
PollingSavings(z, price) ==
    LET steps_per_run == Len(z.nodes)
        fallback == guard_nan((FALLBACK_MONTHLY_RUNS * steps_per_run * price
                               * POLLING_REDUCTION_RATE) \div 100)
    IN  IF z.usage_stats # None
        THEN IF z.usage_stats[1].total_runs > 0
             THEN LET total_tasks ==
                          calculate_task_volume(z.usage_stats[1].total_runs, steps_per_run)
                  IN  [savings |-> guard_nan((total_tasks * price * POLLING_REDUCTION_RATE)
                                             \div 100),
                       has_execution_data |-> TRUE]
             ELSE [savings |-> fallback, has_execution_data |-> TRUE]
        ELSE [savings |-> fallback, has_execution_data |-> TRUE]

is_polling(app_name) ==
    \E i \in 1..Len(polling_apps) : contains(app_name, polling_apps[i])

detect_polling_trigger(z, price) ==
    LET t == FindNode({i \in 1..Len(z.nodes) :
                       z.nodes[i].parent_id = None /\ z.nodes[i].type_of = "read"})
    IN  IF t = 0 THEN None
        ELSE LET app_name == parse_app_name(z.nodes[t].selected_api)
             IN  IF is_polling(app_name)
                 THEN LET s == PollingSavings(z, price)
                      IN  Some(Flag(z, "polling_trigger", "medium", s.savings,
                                    ~s.has_execution_data,
                                    IF s.has_execution_data THEN "medium" ELSE "low",
                                    [app_name |-> app_name]))
                 ELSE None

RECURSIVE detect_efficiency_flags(_, _)
detect_efficiency_flags(zaps, price) ==
    IF zaps = <<>> THEN <<>>
    ELSE LET z == Head(zaps)
         IN  detect_polling_trigger(z, price)
             \o detect_late_filter_placement(z, price)
             \o detect_error_loop(z, price)
             \o detect_efficiency_flags(Tail(zaps), price)

\* ------------------------------------------------------------------------
\* SpecDetect: the detectors applied to one workflow
\* ------------------------------------------------------------------------
MaxSteps == 3

API_RSS == <<"R", "S", "S", "C", "L", "I", "A", "P", "I", "@", "1", ".", "0", ".", "0">>
API_Webhook == <<"W", "e", "b", "h", "o", "o", "k", "C", "L", "I", "A", "P", "I", "@", "1", ".", "2", ".", "0">>
API_Slack == <<"S", "l", "a", "c", "k", "C", "L", "I", "A", "P", "I", "@", "1", ".", "0", ".", "0">>
API_Filter == <<"F", "i", "l", "t", "e", "r", "C", "L", "I", "A", "P", "I", "@", "1", ".", "0", ".", "0">>

\* The steps a workflow of the model is made of
StepKinds ==
    << [type_of |-> "read", selected_api |-> API_RSS, action |-> <<"n", "e", "w", "_", "i", "t", "e", "m">>, title |-> None],
       [type_of |-> "read", selected_api |-> API_Webhook, action |-> <<"h", "o", "o", "k">>, title |-> None],
       [type_of |-> "write", selected_api |-> API_Slack, action |-> <<"m", "e", "s", "s", "a", "g", "e">>, title |-> None],
       [type_of |-> "write", selected_api |-> API_Filter, action |-> <<"f", "i", "l", "t", "e", "r">>,
        title |-> Some(<<"O", "n", "l", "y", " ", "c", "o", "n", "t", "i", "n", "u", "e", " ", "i", "f">>)] >>

Node(id, parent_id, kind) ==
    [id |-> id, parent_id |-> parent_id, type_of |-> StepKinds[kind].type_of,
     selected_api |-> StepKinds[kind].selected_api, action |-> StepKinds[kind].action,
     title |-> StepKinds[kind].title]

\* A workflow of n steps with the distinct ids 1..n, in one iteration order:
\* each step has no parent or any other step as its parent.
StepShapes(n) ==
    [1..n -> [kind : 1..Len(StepKinds), parent_id : {None} \cup {Some(j) : j \in 1..n}]]

NodeMap(n, sh) == [i \in 1..n |-> Node(i, sh[i].parent_id, sh[i].kind)]

\* Usage statistics of the scenarios: runs/successes/errors
StatsSamples ==
    {UsageStats(100, 70, 30), UsageStats(20, 8, 12), UsageStats(10, 10, 0),
     UsageStats(10, 5, 5), UsageStats(10, 9, 1)}

StatsInputs == {None} \cup {Some(st) : st \in StatsSamples}

InitZap ==
    \E n \in 0..MaxSteps : \E sh \in StepShapes(n) : \E stats \in StatsInputs :
        /\ \A i \in 1..n : sh[i].parent_id # Some(i)
        /\ zap = [id |-> 7, nodes |-> NodeMap(n, sh), usage_stats |-> stats]

InitDetect ==
    /\ InitZap
    /\ price_per_task = default_fallback.cost_per_task
    /\ flags = None
    /\ IdleBoundary /\ IdlePricing /\ IdleWalk /\ IdleRuns /\ IdleReport

DetectEfficiencyFlags ==
    /\ flags = None
    /\ flags' = Some(detect_efficiency_flags(<<zap>>, price_per_task))
    /\ UNCHANGED <<call, outcome, plan, actual_usage, pricing, zap, price_per_task,
                   ordered_nodes, current_id, pc, first_run, second_run, report, validation, gate>>

NextDetect == DetectEfficiencyFlags

SpecDetect == InitDetect /\ [][NextDetect]_vars

FlagsOfType(t) == {i \in 1..Len(flags[1]) : flags[1][i].flag_type = t}

EntrySteps(z) == {i \in 1..Len(z.nodes) : z.nodes[i].parent_id = None}

HasTelemetry(z) == z.usage_stats # None /\ z.usage_stats[1].total_runs > 0

\* C3: a workflow whose entry step is a read-type step on the polling
\* integration "RSSCLIAPI@1.0.0" and which has no usage stats yields exactly one
\* polling_trigger finding, severity medium, confidence low, savings
\* 500 x steps x 20% x cost-per-unit; a polling finding has confidence medium
\* only when usage stats with total_runs > 0 exist.
C3_PollingFallbackIsLow ==
    flags # None =>
        /\ (/\ zap.usage_stats = None
            /\ Cardinality(EntrySteps(zap)) = 1
            /\ \A i \in EntrySteps(zap) :
                  zap.nodes[i].type_of = "read" /\ zap.nodes[i].selected_api = API_RSS)
           => /\ Cardinality(FlagsOfType("polling_trigger")) = 1
              /\ \A i \in FlagsOfType("polling_trigger") :
                    /\ flags[1][i].severity = "medium"
                    /\ flags[1][i].confidence = "low"
                    /\ flags[1][i].estimated_monthly_savings =
                          (500 * Len(zap.nodes) * 20 * price_per_task) \div 100
        /\ \A i \in FlagsOfType("polling_trigger") :
              flags[1][i].confidence = "medium" => HasTelemetry(zap)

\* C4: every finding produced for a workflow with no usage stats or with
\* total_runs = 0 has is_fallback = TRUE, and every finding with
\* is_fallback = FALSE was computed from usage stats with total_runs > 0.
C4_FallbackFlagTracksTelemetry ==
    flags # None =>
        \A i \in 1..Len(flags[1]) :
            /\ ~HasTelemetry(zap) => flags[1][i].is_fallback
            /\ ~flags[1][i].is_fallback => HasTelemetry(zap)

\* C10: for a workflow with zero steps or with no entry (parent-less) step,
\* whatever usage stats are attached, none of the three detectors returns a
\* finding.
C10_NoEntryNoFinding ==
    flags # None =>
        ((Len(zap.nodes) = 0 \/ EntrySteps(zap) = {}) => flags[1] = <<>>)


\* ------------------------------------------------------------------------
\* AuditResultV1::validate and the last steps of analyze_zaps
\* ------------------------------------------------------------------------
\* Result<T, E>
Ok(value) == [is_ok |-> TRUE, value |-> value]
Err(message) == [is_ok |-> FALSE, value |-> message]

\* The first element of a sequence of Results that is an Err, else Ok(())
RECURSIVE FirstErr(_)
FirstErr(results) ==
    IF results = <<>> THEN Ok(<<>>)
    ELSE IF ~Head(results).is_ok THEN Head(results)
    ELSE FirstErr(Tail(results))

\* for flag in &finding.flags { ... }
validate_flag(zap_id, flag) ==
    IF is_nan(flag.impact.estimated_monthly_savings_usd)
    THEN Err(<<"Zap", zap_id, "has flag with NaN savings">>)
    ELSE IF F32Less(flag.impact.estimated_monthly_savings_usd, 0)
    THEN Err(<<"Zap", zap_id, "has negative savings">>)
    ELSE Ok(<<>>)

\* for finding in &self.per_zap_findings { ... }
validate_finding(finding) ==
    IF is_nan(finding.metrics.task_step_ratio)
    THEN Err(<<"Zap", finding.zap_id, "has NaN in task_step_ratio">>)
    ELSE FirstErr([i \in 1..Len(finding.flags) |->
                      validate_flag(finding.zap_id, finding.flags[i])])

\* for opp in &self.opportunities_ranked { ... }
validate_opportunity(opp) ==
    IF is_nan(opp.estimated_monthly_savings_usd)
    THEN Err(<<"Opportunity has NaN savings">>)
    ELSE Ok(<<>>)

\* validate with every check answering Ok
validate_nothing(result) == Ok(<<>>)

validate(result) ==
    IF is_nan(result.global_metrics.estimated_monthly_waste_usd)
    THEN Err(<<"Global metrics contains NaN in monthly_waste_usd">>)
    ELSE IF is_nan(result.global_metrics.estimated_annual_waste_usd)
    THEN Err(<<"Global metrics contains NaN in annual_waste_usd">>)
    ELSE LET findings == FirstErr([i \in 1..Len(result.per_zap_findings) |->
                                      validate_finding(result.per_zap_findings[i])])
         IN  IF ~findings.is_ok THEN findings
             ELSE FirstErr([i \in 1..Len(result.opportunities_ranked) |->
                               validate_opportunity(result.opportunities_ranked[i])])

\* serde_json writes a finite f32 as a number and NaN or an infinity as null
f32_to_json(v) == IF is_nan(v) \/ is_infinite(v) THEN None ELSE Some(v)

flag_to_json(flag) ==
    [flag EXCEPT !.impact =
        [estimated_monthly_savings_usd |-> f32_to_json(@.estimated_monthly_savings_usd),
         estimated_annual_savings_usd |-> f32_to_json(@.estimated_annual_savings_usd)]]

finding_to_json(finding) ==
    [finding EXCEPT
        !.metrics.task_step_ratio = f32_to_json(@),
        !.flags = [i \in 1..Len(@) |-> flag_to_json(@[i])]]

\* serde_json::to_string(&result): the document, field by field
to_string(result) ==
    [result EXCEPT
        !.audit_metadata.pricing_assumptions.task_price_usd = f32_to_json(@),
        !.global_metrics.estimated_monthly_waste_usd = f32_to_json(@),
        !.global_metrics.estimated_annual_waste_usd = f32_to_json(@),
        !.per_zap_findings = [i \in 1..Len(@) |-> finding_to_json(@[i])],
        !.opportunities_ranked =
            [i \in 1..Len(@) |->
                [@[i] EXCEPT !.estimated_monthly_savings_usd = f32_to_json(@)]],
        !.plan_analysis.usage_percentile = f32_to_json(@)]


\* The end of analyze_zaps on the assembled result:
\*   result.validate().map_err(..)?;
\*   let json_string = serde_json::to_string(&result).map_err(..)?;
\*   Ok(JsValue::from_str(&json_string))
\* steps lists the calls made on the result, in order.
SerializeUnchecked(result) ==
    [is_ok |-> TRUE, value |-> to_string(result), steps |-> <<"to_string">>]

ValidateAndSerialize(result) ==
    LET checked == validate(result)
    IN  IF ~checked.is_ok
        THEN [is_ok |-> FALSE, value |-> <<"Validation failed:">> \o checked.value,
              steps |-> <<"validate">>]
        ELSE [is_ok |-> TRUE, value |-> to_string(result),
              steps |-> <<"validate", "to_string">>]

\* ------------------------------------------------------------------------
\* SpecReport: validate and the validate/serialize steps on assembled reports
\* ------------------------------------------------------------------------
MaxFindings == 2
MaxFlags == 2
MaxBadFields == 2

\* The f32 fields of a report with nf findings of nfl flags each and one ranked
\* opportunity per flag
ReportFields(nf, nfl) ==
    {<<"estimated_monthly_waste_usd">>, <<"estimated_annual_waste_usd">>,
     <<"task_price_usd">>, <<"usage_percentile">>}
    \cup {<<"task_step_ratio", i>> : i \in 1..nf}
    \cup {<<"flag_monthly_savings", i, j>> : i \in 1..nf, j \in 1..nfl}
    \cup {<<"flag_annual_savings", i, j>> : i \in 1..nf, j \in 1..nfl}
    \cup {<<"opportunity_monthly_savings", k>> : k \in 1..(nf * nfl)}

\* A NaN and a negative amount
BadValues == {NaN, 0 - 100000}

\* A report as AuditResultV1::new assembles it, with the f32 value of each
\* field given by at[field]
SampleReport(nf, nfl, at) ==
    [schema_version |-> "1.0.0",
     audit_metadata |->
        [input_sources |-> [zap_json |-> TRUE, task_csv |-> FALSE],
         pricing_assumptions |->
            [plan_tier |-> "Professional", task_price_usd |-> at[<<"task_price_usd">>]]],
     global_metrics |->
        [total_zaps |-> nf,
         estimated_monthly_waste_usd |-> at[<<"estimated_monthly_waste_usd">>],
         estimated_annual_waste_usd |-> at[<<"estimated_annual_waste_usd">>]],
     per_zap_findings |->
        [i \in 1..nf |->
            [zap_id |-> i,
             metrics |-> [steps |-> 3, monthly_tasks |-> 300,
                          task_step_ratio |-> at[<<"task_step_ratio", i>>]],
             flags |->
                [j \in 1..nfl |->
                    [code |-> "LateFilter", severity |-> "High", confidence |-> "Medium",
                     impact |->
                        [estimated_monthly_savings_usd |->
                             at[<<"flag_monthly_savings", i, j>>],
                         estimated_annual_savings_usd |->
                             at[<<"flag_annual_savings", i, j>>]]]]]],
     opportunities_ranked |->
        [k \in 1..(nf * nfl) |->
            [zap_id |-> ((k - 1) \div nfl) + 1, flag_code |-> "LateFilter",
             estimated_monthly_savings_usd |-> at[<<"opportunity_monthly_savings", k>>],
             confidence |-> "Medium", rank |-> k]],
     plan_analysis |->
        [current_plan |-> "Professional", monthly_task_usage |-> 300 * nf,
         usage_percentile |-> at[<<"usage_percentile">>]]]

\* The value of a field in a report without defect
GoodValue(field) ==
    IF field[1] = "task_price_usd" THEN default_fallback.cost_per_task
    ELSE IF field[1] = "usage_percentile" THEN 15000
    ELSE IF field[1] = "task_step_ratio" THEN 100 * 100000
    ELSE IF field[1] \in {"estimated_annual_waste_usd", "flag_annual_savings"}
    THEN 12 * 245000
    ELSE 245000

InitReport ==
    /\ \E nf \in 0..MaxFindings : \E nfl \in 0..MaxFlags :
       \E bad \in {b \in SUBSET ReportFields(nf, nfl) : Cardinality(b) <= MaxBadFields} :
       \E value \in [bad -> BadValues] :
           report = SampleReport(nf, nfl,
                                 [f \in ReportFields(nf, nfl) |->
                                     IF f \in bad THEN value[f] ELSE GoodValue(f)])
    /\ validation = None
    /\ gate = None
    /\ IdleBoundary /\ IdlePricing /\ IdleDetect /\ IdleWalk /\ IdleRuns

\* result.validate()
Validate ==
    /\ validation = None
    /\ validation' = Some(validate(report))
    /\ UNCHANGED <<call, outcome, plan, actual_usage, pricing, zap, price_per_task, flags,
                   ordered_nodes, current_id, pc, first_run, second_run, report, gate>>

\* analyze_zaps from "// 10. VALIDATE" to its return
FinishAnalyzeZaps ==
    /\ gate = None
    /\ gate' = Some(ValidateAndSerialize(report))
    /\ UNCHANGED <<call, outcome, plan, actual_usage, pricing, zap, price_per_task, flags,
                   ordered_nodes, current_id, pc, first_run, second_run, report,
                   validation>>

NextReport == Validate \/ FinishAnalyzeZaps

SpecReport == InitReport /\ [][NextReport]_vars


AllFlagImpacts(result) ==
    UNION {{result.per_zap_findings[i].flags[j].impact :
               j \in 1..Len(result.per_zap_findings[i].flags)} :
           i \in 1..Len(result.per_zap_findings)}

HasNaNFinancialField(result) ==
    \/ is_nan(result.global_metrics.estimated_monthly_waste_usd)
    \/ is_nan(result.global_metrics.estimated_annual_waste_usd)
    \/ is_nan(result.audit_metadata.pricing_assumptions.task_price_usd)
    \/ is_nan(result.plan_analysis.usage_percentile)
    \/ \E impact \in AllFlagImpacts(result) :
          \/ is_nan(impact.estimated_monthly_savings_usd)
          \/ is_nan(impact.estimated_annual_savings_usd)
    \/ \E k \in 1..Len(result.opportunities_ranked) :
          is_nan(result.opportunities_ranked[k].estimated_monthly_savings_usd)

HasNegativeSavings(result) ==
    \/ \E impact \in AllFlagImpacts(result) :
          \/ F32Less(impact.estimated_monthly_savings_usd, 0)
          \/ F32Less(impact.estimated_annual_savings_usd, 0)
    \/ \E k \in 1..Len(result.opportunities_ranked) :
          F32Less(result.opportunities_ranked[k].estimated_monthly_savings_usd, 0)

\* C7: AuditResultV1::validate returns an error whenever a financial field of
\* the report (global monthly/annual waste, a flag's monthly or annual savings,
\* a ranked opportunity's monthly savings, the task price, the usage
\* percentile) is NaN or a savings field is negative; it returns Ok only for
\* reports without such a field.
C7_ValidateRejectsNaNAndNegative ==
    validation # None =>
        ((HasNaNFinancialField(report) \/ HasNegativeSavings(report))
            => ~validation[1].is_ok)

\* C8: the end of analyze_zaps validates the assembled report and then
\* serializes it: when validate fails the call fails with the validation
\* message and nothing is serialized; a document is returned only after
\* validate returned Ok, and it is the serialization of the validated report.
C8_ValidateBeforeSerialize ==
    gate # None =>
        /\ ~validate(report).is_ok =>
              /\ ~gate[1].is_ok
              /\ gate[1].steps = <<"validate">>
              /\ gate[1].value = <<"Validation failed:">> \o validate(report).value
        /\ gate[1].is_ok =>
              /\ validate(report).is_ok
              /\ gate[1].steps = <<"validate", "to_string">>
              /\ gate[1].value = to_string(report)

C8_Witness ==
    /\ gate # None
    /\ ~gate[1].is_ok
    /\ report.per_zap_findings # <<>>
    /\ is_nan(report.per_zap_findings[Len(report.per_zap_findings)].metrics.task_step_ratio)
    /\ ~is_nan(report.global_metrics.estimated_monthly_waste_usd)


\* ------------------------------------------------------------------------
\* SpecWalk: detect_late_filter_placement, step by step, on
\* workflows whose steps may share an id (Node::deserialize gives a step
\* without a usable "id" the id 0) and may name any id as their parent
\* ------------------------------------------------------------------------
MaxWalkNodes == 3
MaxNodeId == 1

WalkShapes(n) ==
    [1..n -> [id : 0..MaxNodeId, kind : 1..Len(StepKinds),
              parent_id : {None} \cup {Some(j) : j \in 0..MaxNodeId}]]

InitWalk ==
    /\ \E n \in 0..MaxWalkNodes : \E sh \in WalkShapes(n) :
          zap = [id |-> 7,
                 nodes |-> [i \in 1..n |-> Node(sh[i].id, sh[i].parent_id, sh[i].kind)],
                 usage_stats |-> None]
    /\ price_per_task = default_fallback.cost_per_task
    /\ flags = None
    /\ ordered_nodes = <<>>
    /\ current_id = None
    /\ pc = "find_trigger"
    /\ IdleBoundary /\ IdlePricing /\ IdleRuns /\ IdleReport

\* let trigger = zap.nodes.values().find(|node| node.parent_id.is_none())?;
\* ordered_nodes.push(trigger); let mut current_id = trigger.id;
FindTrigger ==
    /\ pc = "find_trigger"
    /\ LET t == FindNode({i \in 1..Len(zap.nodes) : zap.nodes[i].parent_id = None})
       IN  IF t = 0
           THEN /\ flags' = Some(None)
                /\ pc' = "returned"
                /\ UNCHANGED <<ordered_nodes, current_id>>
           ELSE /\ ordered_nodes' = <<zap.nodes[t]>>
                /\ current_id' = Some(zap.nodes[t].id)
                /\ pc' = "while"
                /\ UNCHANGED flags
    /\ UNCHANGED <<call, outcome, plan, actual_usage, pricing, zap, price_per_task,
                   first_run, second_run, report, validation, gate>>

\* while let Some(node) = zap.nodes.values().find(|n| n.parent_id == Some(current_id))
WhileLet ==
    /\ pc = "while"
    /\ pc' = IF NextInChain(zap.nodes, current_id[1]) = 0 THEN "for" ELSE "body"
    /\ UNCHANGED <<call, outcome, plan, actual_usage, pricing, zap, price_per_task, flags,
                   ordered_nodes, current_id, first_run, second_run, report, validation,
                   gate>>

\* { ordered_nodes.push(node); current_id = node.id; } with node the step the
\* condition found.  A walk that ends visits each id at most once, so it
\* pushes at most Len(zap.nodes) nodes; of a longer vector the model keeps the
\* first Len(zap.nodes) + 1 entries.
PushNode ==
    /\ pc = "body"
    /\ LET node == zap.nodes[NextInChain(zap.nodes, current_id[1])]
       IN  /\ ordered_nodes' = IF Len(ordered_nodes) <= Len(zap.nodes)
                               THEN Append(ordered_nodes, node)
                               ELSE ordered_nodes
           /\ current_id' = Some(node.id)
    /\ pc' = "while"
    /\ UNCHANGED <<call, outcome, plan, actual_usage, pricing, zap, price_per_task, flags,
                   first_run, second_run, report, validation, gate>>

\* for (index, node) in ordered_nodes.iter().enumerate() { ... } None
LookForFilter ==
    /\ pc = "for"
    /\ flags' = Some(ScanForLateFilter(zap, price_per_task, ordered_nodes, 1))
    /\ pc' = "returned"
    /\ UNCHANGED <<call, outcome, plan, actual_usage, pricing, zap, price_per_task,
                   ordered_nodes, current_id, first_run, second_run, report, validation,
                   gate>>

NextWalk == FindTrigger \/ WhileLet \/ PushNode \/ LookForFilter

\* The call is a synchronous computation: it keeps running while it can.
SpecWalk == InitWalk /\ [][NextWalk]_vars /\ WF_vars(NextWalk)

\* C5: the reconstruction of the step chain terminates for every workflow,
\* also with duplicated step ids, a step that is its own parent or parent
\* references that close a cycle: the call eventually returns a finding or
\* no finding.
C5_WalkTerminates == <>(pc = "returned")


\* ------------------------------------------------------------------------
\* SpecIdem: the detectors invoked twice on the same workflow.  zap.nodes is
\* a HashMap<String, Node> that each invocation deserializes anew; the order
\* in which values() yields its entries is unspecified and may differ from
\* one map to the next, so each invocation draws one order.
\* ------------------------------------------------------------------------
Orders(n) == {o \in [1..n -> 1..n] : \A i, j \in 1..n : o[i] = o[j] => i = j}

\* The workflow with its steps in the order o of one HashMap
Iterated(z, o) == [z EXCEPT !.nodes = [i \in 1..Len(z.nodes) |-> z.nodes[o[i]]]]

InitIdem ==
    /\ InitZap
    /\ price_per_task = default_fallback.cost_per_task
    /\ first_run = None
    /\ second_run = None
    /\ flags = Idle /\ IdleBoundary /\ IdlePricing /\ IdleWalk /\ IdleReport

FirstInvocation ==
    /\ first_run = None
    /\ \E o \in Orders(Len(zap.nodes)) :
          first_run' = Some(detect_efficiency_flags(<<Iterated(zap, o)>>, price_per_task))
    /\ UNCHANGED <<call, outcome, plan, actual_usage, pricing, zap, price_per_task, flags,
                   ordered_nodes, current_id, pc, second_run, report, validation, gate>>

SecondInvocation ==
    /\ first_run # None
    /\ second_run = None
    /\ \E o \in Orders(Len(zap.nodes)) :
          second_run' = Some(detect_efficiency_flags(<<Iterated(zap, o)>>, price_per_task))
    /\ UNCHANGED <<call, outcome, plan, actual_usage, pricing, zap, price_per_task, flags,
                   ordered_nodes, current_id, pc, first_run, report, validation, gate>>

NextIdem == FirstInvocation \/ SecondInvocation

SpecIdem == InitIdem /\ [][NextIdem]_vars

\* C6: two invocations on identical input return identical findings (the
\* same findings with the same values in the same order), whatever order the
\* step map of each invocation iterates in.
C6_SameInputSameFindings ==
    (first_run # None /\ second_run # None) => first_run = second_run


\* ------------------------------------------------------------------------
\* The public boundary: archives, documents and task-history tables
\* ------------------------------------------------------------------------
Digits == <<"0", "1", "2", "3", "4", "5", "6", "7", "8", "9">>

is_digit(c) == \E i \in 1..Len(Digits) : Digits[i] = c

DigitValue(c) == (CHOOSE i \in 1..Len(Digits) : Digits[i] = c) - 1

\* u64::to_string
RECURSIVE u64_to_string(_)
u64_to_string(n) ==
    IF n < 10 THEN <<Digits[n + 1]>>
    ELSE Append(u64_to_string(n \div 10), Digits[(n % 10) + 1])

RECURSIVE DecimalValue(_, _)
DecimalValue(s, acc) ==
    IF s = <<>> THEN acc ELSE DecimalValue(Tail(s), acc * 10 + DigitValue(Head(s)))

\* str::parse::<u64>: Some(n) for a non-empty string of digits (one leading
\* "+" allowed), None for anything else
parse_u64(s) ==
    LET digits == IF s # <<>> /\ Head(s) = "+" THEN Tail(s) ELSE s
    IN  IF digits # <<>> /\ \A i \in 1..Len(digits) : is_digit(digits[i])
        THEN Some(DecimalValue(digits, 0))
        ELSE None

STR_zapfile_json == <<"z", "a", "p", "f", "i", "l", "e", ".", "j", "s", "o", "n">>
STR_zaps_json == <<"z", "a", "p", "s", ".", "j", "s", "o", "n">>
STR_config_json == <<"c", "o", "n", "f", "i", "g", ".", "j", "s", "o", "n">>
STR_csv == <<".", "c", "s", "v">>
STR_zap_id == <<"z", "a", "p", "_", "i", "d">>
STR_status == <<"s", "t", "a", "t", "u", "s">>
STR_success == <<"s", "u", "c", "c", "e", "s", "s">>
STR_error == <<"e", "r", "r", "o", "r">>
STR_failed == <<"f", "a", "i", "l", "e", "d">>
STR_failure == <<"f", "a", "i", "l", "u", "r", "e">>
STR_professional == <<"p", "r", "o", "f", "e", "s", "s", "i", "o", "n", "a", "l">>
STR_team == <<"t", "e", "a", "m">>
STR_on == <<"o", "n">>

\* const ZAPFILE_CANDIDATES
ZAPFILE_CANDIDATES == <<STR_zapfile_json, STR_zaps_json, STR_config_json>>

\* headers.iter().position(|h| h.to_lowercase() == x), counted from 1; 0 for None
Position(seq, x) ==
    FindNode({i \in 1..Len(seq) : to_lowercase(seq[i]) = x})

STR_error_message == <<"e", "r", "r", "o", "r", "_", "m", "e", "s", "s", "a", "g", "e">>
STR_timestamp == <<"t", "i", "m", "e", "s", "t", "a", "m", "p">>

\* One record of a task-history table counted into the statistics of its zap:
\* total_runs += 1; success_count += 1 for "success"; error_count += 1 for
\* "error", "failed" or "failure"
CountRecord(stats, status_str) ==
    LET status == to_lowercase(status_str)
        is_error == status \in {STR_error, STR_failed, STR_failure}
    IN  [stats EXCEPT !.total_runs = @ + 1,
                      !.success_count = @ + (IF status = STR_success THEN 1 ELSE 0),
                      !.error_count = @ + (IF status # STR_success /\ is_error THEN 1 ELSE 0)]

\* ExecutionRecord of one record: is_error, and the error message when the
\* run failed, the table has a message column and the field is not empty
ExecutionRecord(record, status_col, error_msg_idx) ==
    LET status == to_lowercase(record[status_col])
        is_error == status \in {STR_error, STR_failed, STR_failure}
    IN  [is_error |-> is_error,
         error_message |->
             IF is_error /\ error_msg_idx # 0 /\ error_msg_idx <= Len(record)
                /\ record[error_msg_idx] # <<>>
             THEN Some(record[error_msg_idx]) ELSE None]

\* The timestamps of a zap after one record: the field is pushed when the
\* table has a timestamp column and the field is not empty
PushTimestamp(timestamps, record, timestamp_idx) ==
    IF timestamp_idx # 0 /\ timestamp_idx <= Len(record) /\ record[timestamp_idx] # <<>>
    THEN Append(timestamps, record[timestamp_idx]) ELSE timestamps

\* zap_id_str.parse::<u64>() on the zap_id field of a record: None when
\* the record has no such field or the field is no u64
ZapIdOf(record, zap_id_col) ==
    IF zap_id_col <= Len(record) THEN parse_u64(record[zap_id_col]) ELSE None

\* The tallies after a record of this zap: its execution and its timestamp
\* are pushed and its status is counted
CountInto(tally, zap_id, record, cols) ==
    LET before == IF zap_id \in DOMAIN tally THEN tally[zap_id]
                  ELSE [total_runs |-> 0, success_count |-> 0, error_count |-> 0,
                        executions |-> <<>>, timestamps |-> <<>>]
    IN  [id \in DOMAIN tally \cup {zap_id} |->
            IF id = zap_id
            THEN [CountRecord(before, record[cols.status]) EXCEPT
                     !.executions =
                         Append(@, ExecutionRecord(record, cols.status, cols.error_msg)),
                     !.timestamps = PushTimestamp(@, record, cols.timestamp)]
            ELSE tally[id]]

\* A reading of the records that gives up the table at the first record
\* without a numeric zap id or without a status field
RECURSIVE CountRecords_stop_at_bad_row(_, _, _, _)
CountRecords_stop_at_bad_row(records, k, cols, tally) ==
    IF k > Len(records) THEN tally
    ELSE LET zap_id == ZapIdOf(records[k], cols.zap_id)
         IN  IF zap_id # None /\ cols.status <= Len(records[k])
             THEN CountRecords_stop_at_bad_row(records, k + 1, cols,
                                               CountInto(tally, zap_id[1], records[k], cols))
             ELSE tally

\* One record: counted when its zap id is a u64 and it has a status field,
\* skipped otherwise
CountOne(tally, record, cols, zap_id) ==
    IF zap_id # None /\ cols.status <= Len(record)
    THEN CountInto(tally, zap_id[1], record, cols)
    ELSE tally

\* for result in reader.records(): the tallies after the records from k on;
\* cols holds the column indices found in the header (0: no such column)
RECURSIVE CountRecords(_, _, _, _)
CountRecords(records, k, cols, tally) ==
    IF k > Len(records) THEN tally
    ELSE CountRecords(records, k + 1, cols,
                      CountOne(tally, records[k], cols, ZapIdOf(records[k], cols.zap_id)))

\* The column indices of a header, compared in lower case (0: no such column)
Columns(headers) ==
    [zap_id |-> Position(headers, STR_zap_id),
     status |-> Position(headers, STR_status),
     error_msg |-> FindNode({i \in 1..Len(headers) :
                               to_lowercase(headers[i]) \in {STR_error_message, STR_error}}),
     timestamp |-> Position(headers, STR_timestamp)]

\* A table is counted when its headers hold a "zap_id" and a "status" column
CountTable(csv, cols, tally) ==
    IF cols.zap_id # 0 /\ cols.status # 0
    THEN CountRecords(csv.records, 1, cols, tally)
    ELSE tally

\* for csv_content in csv_contents
RECURSIVE CountTables(_, _)
CountTables(csv_contents, tally) ==
    IF csv_contents = <<>> THEN tally
    ELSE CountTables(Tail(csv_contents),
                     CountTable(Head(csv_contents), Columns(Head(csv_contents).headers), tally))

\* The number of failed runs among executions[from..to]
ErrorsIn(executions, from, to) ==
    Cardinality({i \in from..to : executions[i].is_error})

\* An error trend whose first half is the larger one for an odd number of runs
error_trend_ceil_half(executions) ==
    LET n == Len(executions)
        mid_point == (n + 1) \div 2
        first_half_errors == ErrorsIn(executions, 1, mid_point)
        second_half_errors == ErrorsIn(executions, mid_point + 1, n)
        second == second_half_errors * mid_point * 10
        first == first_half_errors * (n - mid_point)
    IN  IF n \div 2 > 0
        THEN Some(IF second > first * 12 THEN "increasing"
                  ELSE IF second < first * 8 THEN "decreasing"
                  ELSE "stable")
        ELSE None

\* error_trend: the error rate of the first executions.len() / 2 runs against
\* the error rate of the rest (second > first * 1.2, second < first * 0.8,
\* compared exactly over the common denominator); None below two runs
error_trend(executions) ==
    LET n == Len(executions)
        mid_point == n \div 2
        first_half_errors == ErrorsIn(executions, 1, mid_point)
        second_half_errors == ErrorsIn(executions, mid_point + 1, n)
        second == second_half_errors * mid_point * 10
        first == first_half_errors * (n - mid_point)
    IN  IF mid_point > 0
        THEN Some(IF second > first * 12 THEN "increasing"
                  ELSE IF second < first * 8 THEN "decreasing"
                  ELSE "stable")
        ELSE None

\* A streak that counts every execution, failed or not
RECURSIVE max_streak_of_runs(_, _, _, _)
max_streak_of_runs(executions, k, current_streak, longest) ==
    IF k > Len(executions) THEN longest
    ELSE max_streak_of_runs(executions, k + 1, current_streak + 1,
                            IF current_streak + 1 > longest THEN current_streak + 1 ELSE longest)

\* max_streak: the longest run of consecutive failed executions
RECURSIVE max_streak(_, _, _, _)
max_streak(executions, k, current_streak, longest) ==
    IF k > Len(executions) THEN longest
    ELSE IF executions[k].is_error
         THEN max_streak(executions, k + 1, current_streak + 1,
                         IF current_streak + 1 > longest THEN current_streak + 1 ELSE longest)
         ELSE max_streak(executions, k + 1, 0, longest)

\* error_counts: how often each error message occurs
error_counts(executions) ==
    LET messages == {executions[i].error_message[1] :
                        i \in {j \in 1..Len(executions) : executions[j].error_message # None}}
    IN  [msg \in messages |->
            Cardinality({i \in 1..Len(executions) : executions[i].error_message = Some(msg)})]

\* most_common_error: max_by_key over the iteration of error_counts returns
\* the last most frequent message; the iteration order of the HashMap is the
\* order of the messages in hash_order
most_common_error(executions, hash_order) ==
    LET counts == error_counts(executions)
        most == {i \in 1..Len(hash_order) :
                    /\ hash_order[i] \in DOMAIN counts
                    /\ \A msg \in DOMAIN counts : counts[msg] <= counts[hash_order[i]]}
    IN  IF most = {} THEN None
        ELSE Some(hash_order[CHOOSE i \in most : \A j \in most : j <= i])

\* a < b on strings of digits, as str compares them (byte by byte)
RECURSIVE StrLess(_, _)
StrLess(a, b) ==
    IF b = <<>> THEN FALSE
    ELSE IF a = <<>> THEN TRUE
    ELSE IF Head(a) = Head(b) THEN StrLess(Tail(a), Tail(b))
    ELSE DigitValue(Head(a)) < DigitValue(Head(b))

\* last_run: timestamps.iter().max()
last_run(timestamps) ==
    IF timestamps = <<>> THEN None
    ELSE Some(timestamps[CHOOSE i \in 1..Len(timestamps) :
                            \A j \in 1..Len(timestamps) : ~StrLess(timestamps[i], timestamps[j])])

\* The error messages of the task histories, in the order of their first use
ErrorMessages == << <<"t", "i", "m", "e", "o", "u", "t">>, <<"a", "u", "t", "h">> >>

\* The UsageStats of a zap after the analytics over its executions
StatsOf(counted, rated, hash_order) ==
    [total_runs |-> counted.total_runs, success_count |-> counted.success_count,
     error_count |-> counted.error_count, error_rate |-> rated.error_rate,
     has_task_history |-> TRUE,
     most_common_error |-> most_common_error(counted.executions, hash_order),
     error_trend |-> error_trend(counted.executions),
     max_streak |-> max_streak(counted.executions, 1, 0, 0),
     last_run |-> last_run(counted.timestamps)]

\* for (zap_id, stats) in task_history_map.iter_mut()
EnhanceAll(tally, hash_order) ==
    [id \in DOMAIN tally |->
        StatsOf(tally[id],
                UsageStats(tally[id].total_runs, tally[id].success_count,
                           tally[id].error_count),
                hash_order)]

\* parse_csv_files with the iteration order of its error_counts maps given:
\* the map from zap id to UsageStats
parse_csv_files_in(csv_contents, hash_order) ==
    EnhanceAll(CountTables(csv_contents, <<>>), hash_order)

\* parse_csv_files: the map from zap id to UsageStats
parse_csv_files(csv_contents) == parse_csv_files_in(csv_contents, ErrorMessages)

\* attach_usage_stats
attach_usage_stats(zaps, task_history_map) ==
    [i \in 1..Len(zaps) |->
        IF zaps[i].id \in DOMAIN task_history_map
        THEN [zaps[i] EXCEPT !.usage_stats = Some(task_history_map[zaps[i].id])]
        ELSE zaps[i]]


\* The order check with < for <=: equal neighbours pass
Ascending_or_equal(tiers) == \A i \in 2..Len(tiers) : tiers[i][1] >= tiers[i - 1][1]

\* validate_pricing_tiers on the given tables
Ascending(tiers) == \A i \in 2..Len(tiers) : tiers[i][1] > tiers[i - 1][1]

ValidateTiers(professional, team) ==
    IF professional = <<>> THEN Err(<<"CRITICAL: Professional pricing tiers are empty!">>)
    ELSE IF team = <<>> THEN Err(<<"CRITICAL: Team pricing tiers are empty!">>)
    ELSE IF ~Ascending(professional)
    THEN Err(<<"CRITICAL: Professional pricing tiers not sorted!">>)
    ELSE IF ~Ascending(team) THEN Err(<<"CRITICAL: Team pricing tiers not sorted!">>)
    ELSE Ok(<<>>)

validate_pricing_tiers == ValidateTiers(PROFESSIONAL, TEAM)

\* match plan_str.to_lowercase().as_str() { "professional" => .., "team" => .., _ => .. }
ParsePlan(plan_str) ==
    IF to_lowercase(plan_str) = STR_professional THEN "Professional"
    ELSE IF to_lowercase(plan_str) = STR_team THEN "Team"
    ELSE "Professional"

\* What a call hands back to its caller: a returned value, or an error raised
\* into the caller (raised = TRUE); calls lists, in order, the calls to
\* validate_pricing_tiers, resolve, detect_efficiency_flags, validate and
\* to_string that the call made.
Returned(value, calls) == [raised |-> FALSE, value |-> value, calls |-> calls]
Raised(value, calls) == [raised |-> TRUE, value |-> value, calls |-> calls]

ErrorResult(message) == [kind |-> "ErrorResult", success |-> FALSE, message |-> message]

\* What the loop over the archive has gathered
NothingRead ==
    [error |-> None, zapfile_content |-> <<>>, csv_contents |-> <<>>,
     found_zapfile |-> FALSE]

\* The loop of parse_zapier_export over archive.by_index(i), from file i on
RECURSIVE ScanExport(_, _, _)
ScanExport(files, i, read) ==
    IF i > Len(files) THEN read
    ELSE IF ~files[i].by_index THEN ScanExport(files, i + 1, read)
    ELSE LET file_name_lower == to_lowercase(files[i].name)
             is_zapfile ==
                 /\ ~read.found_zapfile
                 /\ \E c \in 1..Len(ZAPFILE_CANDIDATES) :
                       ends_with(file_name_lower, ZAPFILE_CANDIDATES[c])
         IN  IF is_zapfile /\ ~files[i].read_to_string
             THEN [read EXCEPT !.error = Some(<<"Failed to read zapfile">>)]
             ELSE LET with_zapfile ==
                          IF is_zapfile
                          THEN [read EXCEPT
                                   !.zapfile_content = Append(@, files[i].content),
                                   !.found_zapfile = TRUE]
                          ELSE read
                      with_csv ==
                          IF ends_with(file_name_lower, STR_csv) /\ files[i].read_to_string
                          THEN [with_zapfile EXCEPT
                                   !.csv_contents = Append(@, files[i].content)]
                          ELSE with_zapfile
                  IN  ScanExport(files, i + 1, with_csv)

\* The loop of parse_zap_list, parse_single_zap_audit and parse_batch_audit:
\* every file named *zapfile.json is read into zapfile_content
RECURSIVE ScanArchive(_, _, _)
ScanArchive(files, i, read) ==
    IF i > Len(files) THEN read
    ELSE IF ~files[i].by_index THEN ScanArchive(files, i + 1, read)
    ELSE LET file_name_lower == to_lowercase(files[i].name)
         IN  IF ends_with(file_name_lower, STR_zapfile_json)
             THEN IF ~files[i].read_to_string
                  THEN [read EXCEPT !.error = Some(<<"Failed to read zapfile.json">>)]
                  ELSE ScanArchive(files, i + 1,
                                   [read EXCEPT
                                       !.zapfile_content = Append(@, files[i].content),
                                       !.found_zapfile = TRUE])
             ELSE IF ends_with(file_name_lower, STR_csv) /\ files[i].read_to_string
             THEN ScanArchive(files, i + 1,
                              [read EXCEPT !.csv_contents = Append(@, files[i].content)])
             ELSE ScanArchive(files, i + 1, read)

\* The loop of analyze_zaps: by_index(i)? and read_to_string(..)? end the call
RECURSIVE ScanAnalyze(_, _, _)
ScanAnalyze(files, i, read) ==
    IF i > Len(files) THEN read
    ELSE IF ~files[i].by_index THEN [read EXCEPT !.error = Some(<<"Archive error">>)]
    ELSE LET file_name_lower == to_lowercase(files[i].name)
         IN  IF ~read.found_zapfile /\ ends_with(file_name_lower, STR_zapfile_json)
             THEN IF ~files[i].read_to_string
                  THEN [read EXCEPT !.error = Some(<<"Failed to read zapfile">>)]
                  ELSE ScanAnalyze(files, i + 1,
                                   [read EXCEPT
                                       !.zapfile_content = Append(@, files[i].content),
                                       !.found_zapfile = TRUE])
             ELSE IF ends_with(file_name_lower, STR_csv) /\ files[i].read_to_string
             THEN ScanAnalyze(files, i + 1,
                              [read EXCEPT !.csv_contents = Append(@, files[i].content)])
             ELSE ScanAnalyze(files, i + 1, read)

\* serde_json::from_str::<ZapFile>(&zapfile_content): zapfile_content is the
\* concatenation of the texts read into it; it parses when it is one
\* well-formed export document (two documents in a row are trailing
\* characters), and the result is that document's zaps.
from_str(zapfile_content) ==
    IF Len(zapfile_content) = 1 /\ zapfile_content[1].kind = "json"
    THEN Ok(zapfile_content[1].zaps)
    ELSE Err(<<"Failed to parse zapfile.json">>)

RECURSIVE SumOver(_, _)
SumOver(seq, field) ==
    IF seq = <<>> THEN 0 ELSE seq[1][field] + SumOver(Tail(seq), field)

total_nodes_of(zaps) == SumOver([i \in 1..Len(zaps) |-> [n |-> Len(zaps[i].nodes)]], "n")

\* A score that is not held at 0
RECURSIVE calculate_efficiency_score_unclamped(_, _)
calculate_efficiency_score_unclamped(efficiency_flags, score) ==
    IF efficiency_flags = <<>> THEN score
    ELSE LET flag == Head(efficiency_flags)
             penalty ==
                 IF flag.flag_type = "polling_trigger" /\ flag.severity = "medium" THEN 10
                 ELSE IF flag.flag_type = "late_filter_placement" /\ flag.severity = "high"
                 THEN 25
                 ELSE IF flag.flag_type = "error_loop" /\ flag.severity = "high" THEN 30
                 ELSE IF flag.flag_type = "error_loop" /\ flag.severity = "medium" THEN 20
                 ELSE 0
         IN  calculate_efficiency_score_unclamped(Tail(efficiency_flags), score - penalty)

RECURSIVE calculate_efficiency_score_from(_, _)
calculate_efficiency_score_from(efficiency_flags, score) ==
    IF efficiency_flags = <<>> THEN IF score < 0 THEN 0 ELSE score
    ELSE LET flag == Head(efficiency_flags)
             penalty ==
                 IF flag.flag_type = "polling_trigger" /\ flag.severity = "medium" THEN 10
                 ELSE IF flag.flag_type = "late_filter_placement" /\ flag.severity = "high"
                 THEN 25
                 ELSE IF flag.flag_type = "error_loop" /\ flag.severity = "high" THEN 30
                 ELSE IF flag.flag_type = "error_loop" /\ flag.severity = "medium" THEN 20
                 ELSE 0
         IN  calculate_efficiency_score_from(Tail(efficiency_flags), score - penalty)

calculate_efficiency_score(efficiency_flags) ==
    calculate_efficiency_score_from(efficiency_flags, 100)

calculate_estimated_savings(efficiency_flags) ==
    SumOver(efficiency_flags, "estimated_monthly_savings")

\* The ParseResult of the parse entry points (message and apps left out)
ParseResult(mode, zaps, efficiency_flags) ==
    [kind |-> "ParseResult", success |-> TRUE, mode |-> mode, zap_count |-> Len(zaps),
     total_nodes |-> total_nodes_of(zaps),
     efficiency_flags |-> efficiency_flags,
     efficiency_score |-> calculate_efficiency_score(efficiency_flags),
     estimated_savings |-> calculate_estimated_savings(efficiency_flags),
     estimated_annual_savings |-> calculate_estimated_savings(efficiency_flags) * 12]


\* parse_zapier_export(zip_data): zip_data is None when ZipArchive::new
\* fails on it, else Some(the files of the archive)
parse_zapier_export(zip_data) ==
    IF ~validate_pricing_tiers.is_ok
    THEN Returned(ErrorResult(<<"Pricing configuration error:">>
                              \o validate_pricing_tiers.value),
                  <<"validate_pricing_tiers">>)
    ELSE IF zip_data = None
    THEN Returned(ErrorResult(<<"Failed to open ZIP archive">>),
                  <<"validate_pricing_tiers">>)
    ELSE LET read == ScanExport(zip_data[1], 1, NothingRead)
             parsed == from_str(read.zapfile_content)
         IN  IF read.error # None
             THEN Returned(ErrorResult(read.error[1]), <<"validate_pricing_tiers">>)
             ELSE IF ~read.found_zapfile
             THEN Returned(ErrorResult(<<"No zapfile found in archive.">>),
                           <<"validate_pricing_tiers">>)
             ELSE IF ~parsed.is_ok
             THEN Returned(ErrorResult(parsed.value), <<"validate_pricing_tiers">>)
             ELSE LET task_history_map == parse_csv_files(read.csv_contents)
                      mode == IF DOMAIN task_history_map # {} THEN "Full" ELSE "Partial"
                      zaps == attach_usage_stats(parsed.value, task_history_map)
                      prices == default_fallback
                  IN  IF prices.panicked
                      THEN Raised(<<"panic">>, <<"validate_pricing_tiers", "resolve">>)
                      ELSE Returned(
                               ParseResult(mode, zaps,
                                           detect_efficiency_flags(zaps,
                                                                   prices.cost_per_task)),
                               <<"validate_pricing_tiers", "resolve",
                                 "detect_efficiency_flags">>)

\* parse_zapfile_json(json_content)
parse_zapfile_json(json_content) ==
    LET parsed == from_str(<<json_content>>)
        prices == default_fallback
    IN  IF ~parsed.is_ok
        THEN Returned(ErrorResult(<<"Failed to parse JSON">>), <<>>)
        ELSE IF prices.panicked THEN Raised(<<"panic">>, <<"resolve">>)
        ELSE Returned(ParseResult("Partial", parsed.value,
                                  detect_efficiency_flags(parsed.value,
                                                          prices.cost_per_task)),
                      <<"resolve", "detect_efficiency_flags">>)

STR_Unknown == <<"U", "n", "k", "n", "o", "w", "n">>

\* The trigger_app of a ZapSummary
trigger_app_of(z) ==
    LET t == FindNode({i \in 1..Len(z.nodes) :
                          z.nodes[i].parent_id = None /\ z.nodes[i].type_of = "read"})
    IN  IF t = 0 THEN STR_Unknown ELSE parse_app_name(z.nodes[t].selected_api)

\* A ZapSummary from the zap and the statistics found for it (last_run left out)
ZapSummary(z, stats) ==
    [id |-> z.id, title |-> z.title, status |-> z.status, step_count |-> Len(z.nodes),
     trigger_app |-> trigger_app_of(z),
     error_rate |-> IF stats # None /\ stats[1].total_runs > 0
                    THEN Some(stats[1].error_rate) ELSE None,
     total_runs |-> IF stats # None THEN stats[1].total_runs ELSE 0]

\* parse_zap_list(zip_data)
parse_zap_list(zip_data) ==
    IF zip_data = None
    THEN Returned(ErrorResult(<<"Failed to open ZIP archive">>), <<>>)
    ELSE LET read == ScanArchive(zip_data[1], 1, NothingRead)
             parsed == from_str(read.zapfile_content)
         IN  IF read.error # None THEN Returned(ErrorResult(read.error[1]), <<>>)
             ELSE IF ~read.found_zapfile
             THEN Returned(ErrorResult(<<"zapfile.json not found in archive">>), <<>>)
             ELSE IF ~parsed.is_ok THEN Returned(ErrorResult(parsed.value), <<>>)
             ELSE LET zaps == attach_usage_stats(parsed.value,
                                                 parse_csv_files(read.csv_contents))
                  IN  Returned([kind |-> "ZapListResult", success |-> TRUE,
                                zaps |-> [i \in 1..Len(zaps) |->
                                             ZapSummary(zaps[i], zaps[i].usage_stats)]],
                               <<>>)

\* zapfile.zaps.retain(|z| z.id == zap_id) and the like
RECURSIVE Retain(_, _)
Retain(zaps, ids) ==
    IF zaps = <<>> THEN <<>>
    ELSE IF Head(zaps).id \in ids THEN <<Head(zaps)>> \o Retain(Tail(zaps), ids)
    ELSE Retain(Tail(zaps), ids)

\* parse_single_zap_audit(zip_data, zap_id, plan_str, actual_usage)
parse_single_zap_audit(zip_data, zap_id, plan_str, usage) ==
    LET prices == resolve(ParsePlan(plan_str), usage)
    IN  IF prices.panicked THEN Raised(<<"panic">>, <<"resolve">>)
        ELSE IF zip_data = None
        THEN Returned(ErrorResult(<<"Failed to open ZIP archive">>), <<"resolve">>)
        ELSE LET read == ScanArchive(zip_data[1], 1, NothingRead)
                 parsed == from_str(read.zapfile_content)
             IN  IF read.error # None
                 THEN Returned(ErrorResult(read.error[1]), <<"resolve">>)
                 ELSE IF ~read.found_zapfile
                 THEN Returned(ErrorResult(<<"zapfile.json not found in archive">>),
                               <<"resolve">>)
                 ELSE IF ~parsed.is_ok
                 THEN Returned(ErrorResult(parsed.value), <<"resolve">>)
                 ELSE IF Retain(parsed.value, {zap_id}) = <<>>
                 THEN Returned(ErrorResult(<<"Zap with ID", zap_id,
                                             "not found in the export">>),
                               <<"resolve">>)
                 ELSE LET zaps == attach_usage_stats(Retain(parsed.value, {zap_id}),
                                                     parse_csv_files(read.csv_contents))
                          mode == IF zaps[1].usage_stats # None THEN "Full"
                                  ELSE "Partial"
                      IN  Returned(
                              ParseResult(mode, zaps,
                                          detect_efficiency_flags(zaps,
                                                                  prices.cost_per_task)),
                              <<"resolve", "detect_efficiency_flags">>)


\* usize subtraction a - b.  With overflow checks compiled in, a < b panics;
\* without them the difference wraps, and the model holds the wrapped value
\* 2^32 - k by its two's-complement reading -k.
usize_sub(a, b, overflow_checks) ==
    IF a < b /\ overflow_checks THEN None ELSE Some(a - b)

\* The per-zap loop of parse_batch_audit: the ParseResults of the selected
\* zaps found in the export, in the order of zap_ids
RECURSIVE individual_results_of(_, _, _, _)
individual_results_of(zap_ids, zaps, task_history_map, price) ==
    IF zap_ids = <<>> THEN <<>>
    ELSE LET single_zap_file ==
                 attach_usage_stats(Retain(zaps, {Head(zap_ids)}), task_history_map)
             rest == individual_results_of(Tail(zap_ids), zaps, task_history_map, price)
         IN  IF single_zap_file = <<>> THEN rest
             ELSE <<[ParseResult(IF single_zap_file[1].usage_stats # None
                                 THEN "Full" ELSE "Partial",
                                 single_zap_file,
                                 detect_efficiency_flags(single_zap_file, price))
                        EXCEPT !.zap_count = 1]>> \o rest

SeqToSet(seq) == {seq[i] : i \in 1..Len(seq)}

\* zapfile.zaps.iter().filter(|z| !zap_ids.contains(&z.id))
RECURSIVE Excluded(_, _)
Excluded(zaps, ids) ==
    IF zaps = <<>> THEN <<>>
    ELSE IF Head(zaps).id \notin ids THEN <<Head(zaps)>> \o Excluded(Tail(zaps), ids)
    ELSE Excluded(Tail(zaps), ids)

\* build_zap_summary for each zap of the list
Summaries(zaps, task_history_map) ==
    [i \in 1..Len(zaps) |->
        ZapSummary(zaps[i],
                   IF zaps[i].id \in DOMAIN task_history_map
                   THEN Some(task_history_map[zaps[i].id]) ELSE None)]

\* ------------------------------------------------------------------------
\* detect_cross_zap_patterns
\* ------------------------------------------------------------------------
PATTERN_THRESHOLD == 3

\* all_flags.extend(flags) over the loop of parse_batch_audit
RECURSIVE all_flags_of(_)
all_flags_of(individual_results) ==
    IF individual_results = <<>> THEN <<>>
    ELSE Head(individual_results).efficiency_flags \o all_flags_of(Tail(individual_results))

\* groups: the keys of the map, here in the order of their first flag (the
\* map iterates in an order of its own; the patterns are sorted afterwards)
RECURSIVE GroupKeys(_, _)
GroupKeys(all_flags, keys) ==
    IF all_flags = <<>> THEN keys
    ELSE GroupKeys(Tail(all_flags),
                   IF Head(all_flags).flag_type \in SeqToSet(keys) THEN keys
                   ELSE Append(keys, Head(all_flags).flag_type))

\* groups[flag_type]: the flags of that type, in the order of all_flags
RECURSIVE GroupOf(_, _)
GroupOf(all_flags, flag_type) ==
    IF all_flags = <<>> THEN <<>>
    ELSE (IF Head(all_flags).flag_type = flag_type THEN <<Head(all_flags)>> ELSE <<>>)
         \o GroupOf(Tail(all_flags), flag_type)

\* total_waste_tasks = (total_waste_usd / 0.025) as u32, money in 1/100000 dollar
PatternFinding(flag_type, group) ==
    LET total_waste_usd == SumOver(group, "estimated_monthly_savings")
    IN  [pattern_type |-> flag_type,
         affected_zap_ids |-> [i \in 1..Len(group) |-> group[i].zap_id],
         affected_count |-> Len(group),
         total_waste_tasks |-> total_waste_usd \div 2500,
         total_waste_usd |-> total_waste_usd,
         severity |-> IF Len(group) >= 8 THEN "high"
                      ELSE IF Len(group) >= 5 THEN "medium" ELSE "low"]

PatternScore(pattern) == pattern.affected_count * pattern.total_waste_usd

\* patterns.sort_by(|a, b| b_score.partial_cmp(&a_score).unwrap()), a stable sort
InsertByScore(sorted, x) ==
    LET before == {i \in 1..Len(sorted) : PatternScore(sorted[i]) < PatternScore(x)}
        at == IF before = {} THEN Len(sorted) + 1
              ELSE CHOOSE i \in before : \A j \in before : i <= j
    IN  SubSeq(sorted, 1, at - 1) \o <<x>> \o SubSeq(sorted, at, Len(sorted))

RECURSIVE PatternsOf(_, _, _, _)
PatternsOf(all_flags, keys, threshold, sorted) ==
    IF keys = <<>> THEN sorted
    ELSE LET group == GroupOf(all_flags, Head(keys))
         IN  PatternsOf(all_flags, Tail(keys), threshold,
                        IF Len(group) >= threshold
                        THEN InsertByScore(sorted, PatternFinding(Head(keys), group))
                        ELSE sorted)

detect_cross_zap_patterns(all_flags) ==
    PatternsOf(all_flags, GroupKeys(all_flags, <<>>), PATTERN_THRESHOLD, <<>>)

\* The BatchParseResult of parse_batch_audit (message, combined_apps and the
\* f32 averages left out)
BatchParseResult(zap_ids, zaps, task_history_map, individual_results, excluded_count, instant_trigger_count) ==
    [kind |-> "BatchParseResult", success |-> TRUE,
     zap_count |-> Len(individual_results),
     individual_results |-> individual_results,
     total_nodes |-> SumOver(individual_results, "total_nodes"),
     total_estimated_savings |-> SumOver(individual_results, "estimated_savings"),
     total_flags |->
        SumOver([i \in 1..Len(individual_results) |->
                    [n |-> Len(individual_results[i].efficiency_flags)]], "n"),
     patterns |-> detect_cross_zap_patterns(all_flags_of(individual_results)),
     scope_metadata |->
        [total_zaps_in_account |-> Len(zaps),
         analyzed_count |-> Len(zap_ids),
         excluded_count |-> excluded_count,
         analyzed_zap_summaries |->
            Summaries(Retain(zaps, SeqToSet(zap_ids)), task_history_map),
         excluded_zap_summaries |->
            Summaries(Excluded(zaps, SeqToSet(zap_ids)), task_history_map)],
     system_metrics |->
        [polling_trigger_count |->
            Cardinality({i \in 1..Len(individual_results) :
                \E f \in 1..Len(individual_results[i].efficiency_flags) :
                    individual_results[i].efficiency_flags[f].flag_type
                        = "polling_trigger"}),
         instant_trigger_count |-> instant_trigger_count]]

\* parse_batch_audit(zip_data, zap_ids_js, plan_str, actual_usage): zap_ids_js
\* is None when it does not convert to a Vec<u64>, else Some(the ids)
parse_batch_audit(zip_data, zap_ids_js, plan_str, usage, overflow_checks) ==
    LET prices == resolve(ParsePlan(plan_str), usage)
    IN  IF prices.panicked THEN Raised(<<"panic">>, <<"resolve">>)
        ELSE IF zap_ids_js = None
        THEN Returned(ErrorResult(<<"Failed to parse zap_ids">>), <<"resolve">>)
        ELSE IF zap_ids_js[1] = <<>>
        THEN Returned(ErrorResult(<<"No Zap IDs provided">>), <<"resolve">>)
        ELSE IF zip_data = None
        THEN Returned(ErrorResult(<<"Failed to open ZIP archive">>), <<"resolve">>)
        ELSE LET zap_ids == zap_ids_js[1]
                 read == ScanArchive(zip_data[1], 1, NothingRead)
                 parsed == from_str(read.zapfile_content)
             IN  IF read.error # None
                 THEN Returned(ErrorResult(read.error[1]), <<"resolve">>)
                 ELSE IF ~read.found_zapfile
                 THEN Returned(ErrorResult(<<"zapfile.json not found in archive">>),
                               <<"resolve">>)
                 ELSE IF ~parsed.is_ok
                 THEN Returned(ErrorResult(parsed.value), <<"resolve">>)
                 ELSE LET zaps == parsed.value
                          task_history_map == parse_csv_files(read.csv_contents)
                          individual_results ==
                              individual_results_of(zap_ids, zaps, task_history_map,
                                                    prices.cost_per_task)
                          calls == <<"resolve">>
                                   \o [i \in 1..Len(individual_results) |->
                                          "detect_efficiency_flags"]
                          excluded_count ==
                              usize_sub(Len(zaps), Len(zap_ids), overflow_checks)
                          polling_count ==
                              Cardinality({i \in 1..Len(individual_results) :
                                  \E f \in 1..Len(individual_results[i].efficiency_flags) :
                                      individual_results[i].efficiency_flags[f].flag_type
                                          = "polling_trigger"})
                          instant_count ==
                              usize_sub(Len(Retain(zaps, SeqToSet(zap_ids))),
                                        polling_count, overflow_checks)
                      IN  IF excluded_count = None \/ instant_count = None
                          THEN Raised(<<"panic: attempt to subtract with overflow">>,
                                      calls)
                          ELSE Returned(
                                   BatchParseResult(zap_ids, zaps, task_history_map,
                                                    individual_results,
                                                    excluded_count[1], instant_count[1]),
                                   calls)


STR_path == <<"p", "a", "t", "h">>
STR_webhook == <<"w", "e", "b", "h", "o", "o", "k">>
STR_code == <<"c", "o", "d", "e">>
STR_python == <<"p", "y", "t", "h", "o", "n">>
STR_javascript == <<"j", "a", "v", "a", "s", "c", "r", "i", "p", "t">>

map_flag_code(flag_type) ==
    IF flag_type = "late_filter_placement" THEN "LateFilter"
    ELSE IF flag_type = "polling_trigger" THEN "FormatterChain"
    ELSE "TaskStepCostInflation"

map_confidence(confidence_str) ==
    IF confidence_str = "high" THEN "High"
    ELSE IF confidence_str = "low" THEN "Low"
    ELSE "Medium"

map_severity(severity_str) ==
    IF severity_str = "high" THEN "High"
    ELSE IF severity_str = "low" THEN "Low"
    ELSE "Medium"

convert_efficiency_flag(old_flag) ==
    [code |-> map_flag_code(old_flag.flag_type),
     severity |-> map_severity(old_flag.severity),
     confidence |-> map_confidence(old_flag.confidence),
     impact |-> [estimated_monthly_savings_usd |-> old_flag.estimated_monthly_savings,
                 estimated_annual_savings_usd |-> old_flag.estimated_annual_savings],
     meta |-> [is_fallback |-> old_flag.is_fallback]]

detect_zombie_status(status, monthly_tasks) ==
    to_lowercase(status) = STR_on /\ monthly_tasks = 0

\* old_flags.iter().filter(|f| f.zap_id == zap.id).map(convert_efficiency_flag)
RECURSIVE zap_flags_of(_, _)
zap_flags_of(old_flags, zap_id) ==
    IF old_flags = <<>> THEN <<>>
    ELSE IF Head(old_flags).zap_id = zap_id
    THEN <<convert_efficiency_flag(Head(old_flags))>> \o zap_flags_of(Tail(old_flags), zap_id)
    ELSE zap_flags_of(Tail(old_flags), zap_id)

\* The ZapFinding that the loop of analyze_zaps pushes for one zap; f32
\* ratios are held in units of 1/100000
ZapFinding(z, old_flags, has_csv) ==
    LET steps == Len(z.nodes)
        monthly_tasks == IF z.usage_stats # None
                         THEN calculate_task_volume(z.usage_stats[1].total_runs, steps)
                         ELSE 0
    IN  [zap_id |-> u64_to_string(z.id), zap_name |-> z.title, status |-> z.status,
         is_zombie |-> detect_zombie_status(z.status, monthly_tasks),
         metrics |-> [steps |-> steps, monthly_tasks |-> monthly_tasks,
                      task_step_ratio |->
                          IF steps > 0 THEN guard_nan((monthly_tasks * 100000) \div steps)
                          ELSE 0],
         confidence |-> IF has_csv THEN "High" ELSE "Medium",
         flags |-> zap_flags_of(old_flags, z.id)]

\* The flags of all findings as opportunities, in the order of the findings
RECURSIVE OpportunitiesOf(_)
OpportunitiesOf(findings) ==
    IF findings = <<>> THEN <<>>
    ELSE [j \in 1..Len(Head(findings).flags) |->
             [zap_id |-> Head(findings).zap_id,
              flag_code |-> Head(findings).flags[j].code,
              estimated_monthly_savings_usd |->
                  Head(findings).flags[j].impact.estimated_monthly_savings_usd,
              confidence |-> Head(findings).flags[j].confidence,
              rank |-> 0]]
         \o OpportunitiesOf(Tail(findings))

\* sort_by(|a, b| b.savings.partial_cmp(&a.savings).unwrap_or(Equal)), a stable
\* sort: x goes before the first y of the sorted prefix with less savings
InsertBySavings(sorted, x) ==
    LET before == {i \in 1..Len(sorted) :
                      F32Less(sorted[i].estimated_monthly_savings_usd,
                              x.estimated_monthly_savings_usd)}
        at == IF before = {} THEN Len(sorted) + 1
              ELSE CHOOSE i \in before : \A j \in before : i <= j
    IN  SubSeq(sorted, 1, at - 1) \o <<x>> \o SubSeq(sorted, at, Len(sorted))

RECURSIVE SortBySavings(_, _)
SortBySavings(opportunities, sorted) ==
    IF opportunities = <<>> THEN sorted
    ELSE SortBySavings(Tail(opportunities), InsertBySavings(sorted, Head(opportunities)))

\* The ranking without truncate(10)
rank_opportunities_all(findings) ==
    LET sorted == SortBySavings(OpportunitiesOf(findings), <<>>)
    IN  [i \in 1..Len(sorted) |-> [sorted[i] EXCEPT !.rank = i]]

rank_opportunities(findings) ==
    LET sorted == SortBySavings(OpportunitiesOf(findings), <<>>)
        top == SubSeq(sorted, 1, IF Len(sorted) > 10 THEN 10 ELSE Len(sorted))
    IN  [i \in 1..Len(top) |-> [top[i] EXCEPT !.rank = i]]

AllNodes(zaps) == UNION {SeqToSet(zaps[i].nodes) : i \in 1..Len(zaps)}

detect_premium_features(zaps) ==
    [paths |-> \E node \in AllNodes(zaps) :
                  \/ contains(to_lowercase(node.action), STR_path)
                  \/ contains(to_lowercase(node.selected_api), STR_path),
     filters |-> \E node \in AllNodes(zaps) :
                  contains(to_lowercase(node.action), STR_filter),
     webhooks |-> \E node \in AllNodes(zaps) :
                  \/ contains(to_lowercase(node.selected_api), STR_webhook)
                  \/ contains(to_lowercase(node.action), STR_webhook),
     custom_logic |-> \E node \in AllNodes(zaps) :
                  \/ contains(to_lowercase(node.selected_api), STR_code)
                  \/ contains(to_lowercase(node.selected_api), STR_python)
                  \/ contains(to_lowercase(node.selected_api), STR_javascript)]

AllFindingFlags(findings) ==
    UNION {{<<i, j>> : j \in 1..Len(findings[i].flags)} : i \in 1..Len(findings)}

calculate_confidence_overview(findings) ==
    LET count(level) ==
            Cardinality({i \in 1..Len(findings) : findings[i].confidence = level})
            + Cardinality({p \in AllFindingFlags(findings) :
                              findings[p[1]].flags[p[2]].confidence = level})
    IN  [high |-> count("High"), medium |-> count("Medium"), low |-> count("Low")]


\* selected_zap_ids.iter().filter_map(..): a JsValue that is a string gives
\* the string, a number gives its decimal text, anything else is dropped
RECURSIVE selected_ids_of(_)
selected_ids_of(selected_zap_ids) ==
    IF selected_zap_ids = <<>> THEN <<>>
    ELSE LET id == Head(selected_zap_ids)
         IN  (IF id.as_string # None THEN <<id.as_string[1]>>
              ELSE IF id.as_f64 # None THEN <<u64_to_string(id.as_f64[1])>>
              ELSE <<>>)
             \o selected_ids_of(Tail(selected_zap_ids))

\* zapfile.zaps.retain(|zap| selected_ids.contains(&zap.id.to_string()))
RECURSIVE RetainSelected(_, _)
RetainSelected(zaps, selected_ids) ==
    IF zaps = <<>> THEN <<>>
    ELSE IF u64_to_string(Head(zaps).id) \in SeqToSet(selected_ids)
    THEN <<Head(zaps)>> \o RetainSelected(Tail(zaps), selected_ids)
    ELSE RetainSelected(Tail(zaps), selected_ids)

\* Steps 3 to 9 of analyze_zaps: the AuditResultV1 assembled from the zaps
\* under analysis (generated_at, warnings and effort hours left out); f32
\* ratios are held in units of 1/100000
AssembleResult(zaps, plan_name, prices, has_csv) ==
    LET price == prices.cost_per_task
        old_flags == detect_efficiency_flags(zaps, price)
        findings == [i \in 1..Len(zaps) |-> ZapFinding(zaps[i], old_flags, has_csv)]
        flags_at == AllFindingFlags(findings)
        global_total_tasks ==
            SumOver([i \in 1..Len(findings) |-> findings[i].metrics], "monthly_tasks")
        global_waste_usd ==
            SumOver([i \in 1..Len(findings) |->
                        [usd |-> SumOver([j \in 1..Len(findings[i].flags) |->
                                             findings[i].flags[j].impact],
                                         "estimated_monthly_savings_usd")]], "usd")
        usage_percentile ==
            IF prices.tier_tasks > 0
            THEN guard_nan((global_total_tasks * 100000) \div prices.tier_tasks)
            ELSE 0
        premium_features == detect_premium_features(zaps)
    IN  [schema_version |-> "1.0.0",
         audit_metadata |->
            [input_sources |-> [zap_json |-> TRUE, task_csv |-> has_csv],
             pricing_assumptions |-> [plan_tier |-> plan_name, task_price_usd |-> price],
             confidence_overview |-> calculate_confidence_overview(findings)],
         global_metrics |->
            [total_zaps |-> Len(zaps),
             active_zaps |->
                Cardinality({i \in 1..Len(zaps) : to_lowercase(zaps[i].status) = STR_on}),
             total_monthly_tasks |-> global_total_tasks,
             estimated_monthly_waste_tasks |-> global_waste_usd \div price,
             estimated_monthly_waste_usd |-> global_waste_usd,
             estimated_annual_waste_usd |-> global_waste_usd * 12,
             zombie_zap_count |->
                Cardinality({i \in 1..Len(findings) : findings[i].is_zombie}),
             high_severity_flag_count |->
                Cardinality({p \in flags_at :
                                findings[p[1]].flags[p[2]].severity = "High"})],
         per_zap_findings |-> findings,
         opportunities_ranked |-> rank_opportunities(findings),
         plan_analysis |->
            [current_plan |-> plan_name,
             monthly_task_usage |-> global_total_tasks,
             plan_task_capacity |-> [min |-> prices.tier_tasks, max |-> prices.tier_tasks],
             usage_percentile |-> usage_percentile,
             premium_features_detected |-> premium_features,
             downgrade_safe |->
                F32Less(usage_percentile, 70000) /\ ~premium_features.paths]]

\* analyze_zaps(zip_data, selected_zap_ids, plan_str, actual_usage): an Err
\* of its Result<JsValue, JsValue> is raised into the calling script
analyze_zaps(zip_data, selected_zap_ids, plan_str, usage) ==
    LET selected_ids == selected_ids_of(selected_zap_ids)
        analyze_all == selected_ids = <<>>
        plan_name == ParsePlan(plan_str)
        prices == resolve(plan_name, usage)
    IN  IF prices.panicked THEN Raised(<<"panic">>, <<"resolve">>)
        ELSE IF zip_data = None THEN Raised(<<"Failed to open ZIP">>, <<"resolve">>)
        ELSE LET read == ScanAnalyze(zip_data[1], 1, NothingRead)
                 parsed == from_str(read.zapfile_content)
             IN  IF read.error # None THEN Raised(read.error[1], <<"resolve">>)
                 ELSE IF ~read.found_zapfile
                 THEN Raised(<<"zapfile.json not found in archive">>, <<"resolve">>)
                 ELSE IF ~parsed.is_ok
                 THEN Raised(<<"Failed to parse zapfile">>, <<"resolve">>)
                 ELSE LET task_history_map == parse_csv_files(read.csv_contents)
                          has_csv == DOMAIN task_history_map # {}
                          attached == attach_usage_stats(parsed.value, task_history_map)
                          zaps == IF analyze_all THEN attached
                                  ELSE RetainSelected(attached, selected_ids)
                          result == AssembleResult(zaps, plan_name, prices, has_csv)
                          finished == ValidateAndSerialize(result)
                          calls == <<"resolve", "detect_efficiency_flags">>
                                   \o finished.steps
                      IN  IF finished.is_ok
                          THEN Returned([kind |-> "AuditResultV1",
                                         json |-> finished.value], calls)
                          ELSE Raised(finished.value, calls)


\* ------------------------------------------------------------------------
\* Spec: one call of a public entry point
\* ------------------------------------------------------------------------
MaxFiles == 2

\* Two workflows of an export.  Their steps form one chain each, so the
\* findings are the same in every iteration order of the step map.
ZapLateFilter ==
    [id |-> 7, title |-> "Leads to Slack", status |-> <<"o", "n">>,
     nodes |-> <<Node(1, None, 1), Node(2, Some(1), 3), Node(3, Some(2), 4)>>,
     usage_stats |-> None]

ZapWebhook ==
    [id |-> 8, title |-> "Hook to Slack", status |-> <<"O", "F", "F">>,
     nodes |-> <<Node(1, None, 2), Node(2, Some(1), 3)>>,
     usage_stats |-> None]

\* The text of a file: an export document with these zaps, a task-history
\* table with these headers and records, or text that is neither
JsonText(zaps) == [kind |-> "json", zaps |-> zaps, headers |-> <<>>, records |-> <<>>]
CsvText(headers, records) ==
    [kind |-> "csv", zaps |-> <<>>, headers |-> headers, records |-> records]
OtherText == [kind |-> "text", zaps |-> <<>>, headers |-> <<>>, records |-> <<>>]

TaskHistory ==
    CsvText(<<<<"Z", "a", "p", "_", "I", "D">>, <<"S", "t", "a", "t", "u", "s">>>>,
            << <<<<"7">>, <<"s", "u", "c", "c", "e", "s", "s">>>>, <<<<"7">>, <<"E", "r", "r", "o", "r">>>>, <<<<"7">>, <<"f", "a", "i", "l", "e", "d">>>>,
               <<<<"7">>, <<"f", "i", "l", "t", "e", "r", "e", "d">>>>, <<<<"n", "/", "a">>, <<"s", "u", "c", "c", "e", "s", "s">>>>, <<<<"7">>>> >>)

File(name, by_index, read_to_string, content) ==
    [name |-> name, by_index |-> by_index, read_to_string |-> read_to_string,
     content |-> content]

FileSamples ==
    {File(<<"z", "a", "p", "f", "i", "l", "e", ".", "j", "s", "o", "n">>, TRUE, TRUE, JsonText(<<ZapLateFilter, ZapWebhook>>)),
     File(<<"E", "x", "p", "o", "r", "t", "/", "Z", "a", "p", "F", "i", "l", "e", ".", "J", "S", "O", "N">>, TRUE, TRUE, OtherText),
     File(<<"z", "a", "p", "f", "i", "l", "e", ".", "j", "s", "o", "n">>, TRUE, FALSE, JsonText(<<ZapLateFilter, ZapWebhook>>)),
     File(<<"z", "a", "p", "f", "i", "l", "e", ".", "j", "s", "o", "n">>, FALSE, TRUE, JsonText(<<ZapLateFilter, ZapWebhook>>)),
     File(<<"z", "a", "p", "s", ".", "j", "s", "o", "n">>, TRUE, TRUE, JsonText(<<ZapLateFilter>>)),
     File(<<"t", "a", "s", "k", "_", "h", "i", "s", "t", "o", "r", "y", ".", "c", "s", "v">>, TRUE, TRUE, TaskHistory),
     File(<<"t", "a", "s", "k", "_", "h", "i", "s", "t", "o", "r", "y", ".", "c", "s", "v">>, TRUE, FALSE, TaskHistory),
     File(<<"r", "e", "a", "d", "m", "e", ".", "t", "x", "t">>, TRUE, TRUE, OtherText)}

\* zip_data: bytes that are no archive, or an archive of up to MaxFiles files
ZipInputs ==
    {None} \cup {Some(files) : files \in UNION {[1..n -> FileSamples] : n \in 0..MaxFiles}}

JsonInputs ==
    {JsonText(<<ZapLateFilter, ZapWebhook>>), JsonText(<<ZapLateFilter>>),
     JsonText(<<>>), OtherText}

PlanInputs == {<<"P", "r", "o", "f", "e", "s", "s", "i", "o", "n", "a", "l">>, <<"t", "e", "a", "m">>, <<"e", "n", "t", "e", "r", "p", "r", "i", "s", "e">>}

UsageSamples == {750, 2000001}

ZapIdInputs == {7, 9}

ZapIdsInputs == {None, Some(<<>>), Some(<<7>>), Some(<<8, 7, 9>>), Some(<<7, 7, 7>>)}

JsString(s) == [as_string |-> Some(s), as_f64 |-> None]
JsNumber(n) == [as_string |-> None, as_f64 |-> Some(n)]
JsNull == [as_string |-> None, as_f64 |-> None]

SelectionInputs ==
    {<<>>, <<JsString(<<"7">>)>>, <<JsNumber(8), JsNull>>, <<JsString(<<"9">>)>>, <<JsNull>>}

Init ==
    /\ call = None
    /\ outcome = None
    /\ IdlePricing /\ IdleDetect /\ IdleWalk /\ IdleRuns /\ IdleReport

Unrelated ==
    <<plan, actual_usage, pricing, zap, price_per_task, flags, ordered_nodes, current_id,
      pc, first_run, second_run, report, validation, gate>>

ParseZapierExport ==
    /\ call = None
    /\ \E zip_data \in ZipInputs :
          /\ call' = Some([entry |-> "parse_zapier_export", zip_data |-> zip_data])
          /\ outcome' = Some(parse_zapier_export(zip_data))
    /\ UNCHANGED Unrelated

ParseZapfileJson ==
    /\ call = None
    /\ \E json_content \in JsonInputs :
          /\ call' = Some([entry |-> "parse_zapfile_json", json_content |-> json_content])
          /\ outcome' = Some(parse_zapfile_json(json_content))
    /\ UNCHANGED Unrelated

ParseZapList ==
    /\ call = None
    /\ \E zip_data \in ZipInputs :
          /\ call' = Some([entry |-> "parse_zap_list", zip_data |-> zip_data])
          /\ outcome' = Some(parse_zap_list(zip_data))
    /\ UNCHANGED Unrelated

ParseSingleZapAudit ==
    /\ call = None
    /\ \E zip_data \in ZipInputs, zap_id \in ZapIdInputs, plan_str \in PlanInputs,
          usage \in UsageSamples :
          /\ call' = Some([entry |-> "parse_single_zap_audit", zip_data |-> zip_data,
                           zap_id |-> zap_id, plan_str |-> plan_str,
                           actual_usage |-> usage])
          /\ outcome' = Some(parse_single_zap_audit(zip_data, zap_id, plan_str, usage))
    /\ UNCHANGED Unrelated

\* overflow_checks: whether the build panics on integer overflow
ParseBatchAudit ==
    /\ call = None
    /\ \E zip_data \in ZipInputs, zap_ids_js \in ZapIdsInputs, plan_str \in PlanInputs,
          usage \in UsageSamples, overflow_checks \in BOOLEAN :
          /\ call' = Some([entry |-> "parse_batch_audit", zip_data |-> zip_data,
                           zap_ids_js |-> zap_ids_js, plan_str |-> plan_str,
                           actual_usage |-> usage, overflow_checks |-> overflow_checks])
          /\ outcome' = Some(parse_batch_audit(zip_data, zap_ids_js, plan_str, usage,
                                               overflow_checks))
    /\ UNCHANGED Unrelated

AnalyzeZaps ==
    /\ call = None
    /\ \E zip_data \in ZipInputs, selected_zap_ids \in SelectionInputs,
          plan_str \in PlanInputs, usage \in UsageSamples :
          /\ call' = Some([entry |-> "analyze_zaps", zip_data |-> zip_data,
                           selected_zap_ids |-> selected_zap_ids, plan_str |-> plan_str,
                           actual_usage |-> usage])
          /\ outcome' = Some(analyze_zaps(zip_data, selected_zap_ids, plan_str, usage))
    /\ UNCHANGED Unrelated

Next ==
    \/ ParseZapierExport
    \/ ParseZapfileJson
    \/ ParseZapList
    \/ ParseSingleZapAudit
    \/ ParseBatchAudit
    \/ AnalyzeZaps

Spec == Init /\ [][Next]_vars


\* The entry points that perform financial calculation
FinancialEntryPoints ==
    {"parse_zapier_export", "parse_zapfile_json", "parse_single_zap_audit",
     "parse_batch_audit", "analyze_zaps"}

\* C2: every entry point that performs financial calculation runs
\* validate_pricing_tiers before any call to ZapierPricing::resolve: in the
\* calls of such an entry point, each resolve is preceded by a
\* validate_pricing_tiers.
C2_ValidateTiersBeforeResolve ==
    (outcome # None /\ call[1].entry \in FinancialEntryPoints) =>
        \A i \in 1..Len(outcome[1].calls) :
            outcome[1].calls[i] = "resolve" =>
                \E j \in 1..(i - 1) : outcome[1].calls[j] = "validate_pricing_tiers"

\* The unrecoverable failures that the input of a call decides: the archive
\* is unreadable, the archive holds no *.json file at all (the required
\* document is missing), or the document handed in is malformed
ArchiveUnreadable(c) == c.entry # "parse_zapfile_json" /\ c.zip_data = None

DocumentMissing(c) ==
    /\ c.entry # "parse_zapfile_json"
    /\ c.zip_data # None
    /\ \A i \in 1..Len(c.zip_data[1]) :
          ~ends_with(to_lowercase(c.zip_data[1][i].name), <<".", "j", "s", "o", "n">>)

DocumentMalformed(c) == c.entry = "parse_zapfile_json" /\ c.json_content.kind # "json"

\* C9: on an unrecoverable failure (archive unreadable, required document
\* missing, document malformed) every public entry point, analyze_zaps
\* included, returns to its caller an ErrorResult with success = FALSE and a
\* message, instead of raising an error.
C9_FailuresAreReturnedNotRaised ==
    (/\ outcome # None
     /\ \/ ArchiveUnreadable(call[1])
        \/ DocumentMissing(call[1])
        \/ DocumentMalformed(call[1]))
    => /\ ~outcome[1].raised
       /\ outcome[1].value.kind = "ErrorResult"
       /\ outcome[1].value.success = FALSE
       /\ outcome[1].value.message # <<>>

\* ------------------------------------------------------------------------
\* The findings of one workflow, by detector
\* ------------------------------------------------------------------------
LateFilterFlags == FlagsOfType("late_filter_placement")

\* C11: for a late-filter finding on a workflow whose usage stats have
\* total_runs > 0, the rejection rate used is
\* (total_runs - success_count)/total_runs for every success_count <= total_runs,
\* and savings = actions_before_filter x (total_runs x rejection rate) x
\* cost-per-unit; the fixed 30% rate is not what such a finding is computed
\* from unless the history itself shows 30% rejections.
C11_LateFilterRejectionRate ==
    flags # None =>
        \A i \in LateFilterFlags :
            (HasTelemetry(zap) /\ zap.usage_stats[1].success_count <= zap.usage_stats[1].total_runs)
            => LET stats == zap.usage_stats[1]
                   rejected == stats.total_runs - stats.success_count
                   d == flags[1][i].details
               IN  /\ d.filter_rejection_rate.num * stats.total_runs
                          = rejected * d.filter_rejection_rate.den
                   /\ flags[1][i].estimated_monthly_savings
                          = d.actions_before_filter * rejected * price_per_task

\* ------------------------------------------------------------------------
\* SpecFindings: the detectors applied to one workflow drawn from
\*   - every shape of up to MaxSteps steps (as in SpecDetect), and
\*   - every linear chain of MaxChain steps, held by the map in every order,
\* with the usage statistics of the scenarios, no statistics, or statistics
\* that show no run (which the detectors guard against, although
\* parse_csv_files creates an entry only when it counts a run).
\* ------------------------------------------------------------------------
MaxChain == 4

NoRuns == [total_runs |-> 0, success_count |-> 0, error_count |-> 0,
           error_rate |-> [num |-> 0, den |-> 1]]

FindingsStatsInputs == StatsInputs \cup {Some(NoRuns)}

\* The chain of n steps of these kinds: step c has id c and parent c - 1
ChainNode(kinds, c) == Node(c, IF c = 1 THEN None ELSE Some(c - 1), kinds[c])

InitFindings ==
    /\ \/ \E n \in 0..MaxSteps : \E sh \in StepShapes(n) : \E stats \in FindingsStatsInputs :
             /\ \A i \in 1..n : sh[i].parent_id # Some(i)
             /\ zap = [id |-> 7, nodes |-> NodeMap(n, sh), usage_stats |-> stats]
       \/ \E kinds \in [1..MaxChain -> 1..Len(StepKinds)] : \E o \in Orders(MaxChain) :
          \E stats \in FindingsStatsInputs :
             zap = [id |-> 7, nodes |-> [i \in 1..MaxChain |-> ChainNode(kinds, o[i])],
                    usage_stats |-> stats]
    /\ price_per_task = default_fallback.cost_per_task
    /\ flags = None
    /\ IdleBoundary /\ IdlePricing /\ IdleWalk /\ IdleRuns /\ IdleReport

NextFindings == DetectEfficiencyFlags

SpecFindings == InitFindings /\ [][NextFindings]_vars

\* The chain reconstructed from the entry step by parent links (empty when
\* the workflow has no entry step)
ChainOf(z) ==
    LET t == FindNode(EntrySteps(z))
    IN  IF t = 0 THEN <<>> ELSE FollowChain(z.nodes, <<z.nodes[t]>>, z.nodes[t].id)

\* The writes strictly between the entry step and position k of a chain
WritesBefore(chain, k) == {j \in 2..(k - 1) : chain[j].type_of = "write"}

\* The positions of a chain that hold a late filter: a filter at index > 1
\* (position > 2) with a write-type step strictly between the entry step and it
LateFilters(chain) ==
    {k \in 3..Len(chain) : is_filter(chain[k]) /\ WritesBefore(chain, k) # {}}

IsScenarioChain(z) ==
    LET chain == ChainOf(z)
    IN  /\ Len(z.nodes) = 4 /\ Len(chain) = 4
        /\ chain[1].type_of = "read"
        /\ \A k \in 1..3 : ~is_filter(chain[k])
        /\ chain[2].type_of = "write" /\ chain[3].type_of = "write"
        /\ is_filter(chain[4])
        /\ z.usage_stats = Some(UsageStats(100, 70, 30))

\* C12: detect_late_filter_placement returns a finding iff, in the chain
\* reconstructed from the entry step by parent links, some filter-type step
\* sits at index > 1 with at least one write-type step strictly between the
\* entry step and it; actions_before_filter is the number of those write-type
\* steps and severity is high.  For the chain [trigger, write, write, filter]
\* with usage stats {total_runs: 100, success_count: 70} it yields exactly one
\* finding with actions_before_filter = 2, rejection rate 0.30 and confidence
\* high.
C12_LateFilterIffWriteBeforeFilter ==
    flags # None =>
        LET chain == ChainOf(zap)
            late == LateFilters(chain)
        IN  /\ (LateFilterFlags # {}) <=> (late # {})
            /\ Cardinality(LateFilterFlags) <= 1
            /\ \A i \in LateFilterFlags :
                  /\ flags[1][i].severity = "high"
                  /\ \E k \in late :
                        /\ \A k2 \in late : k <= k2
                        /\ flags[1][i].details.position = k
                        /\ flags[1][i].details.actions_before_filter
                              = Cardinality(WritesBefore(chain, k))
            /\ IsScenarioChain(zap) =>
                  /\ Cardinality(LateFilterFlags) = 1
                  /\ \A i \in LateFilterFlags :
                        /\ flags[1][i].details.actions_before_filter = 2
                        /\ flags[1][i].details.filter_rejection_rate.num * 100
                              = 30 * flags[1][i].details.filter_rejection_rate.den
                        /\ flags[1][i].confidence = "high"

C12_Witness ==
    /\ flags # None
    /\ IsScenarioChain(zap)
    /\ zap.nodes[1].parent_id = Some(3)
    /\ LateFilterFlags # {}

ErrorLoopFlags == FlagsOfType("error_loop")

\* C13: for every workflow with no usage stats, or with usage stats whose
\* total_runs = 0, detect_error_loop returns no finding; it also returns none
\* when error_rate <= 10.
C13_NoErrorLoopWithoutErrors ==
    flags # None =>
        ((\/ zap.usage_stats = None
          \/ zap.usage_stats[1].total_runs = 0
          \/ zap.usage_stats[1].error_count * 100 <= 10 * zap.usage_stats[1].total_runs)
         => ErrorLoopFlags = {})

C13_Witness ==
    /\ flags # None
    /\ zap.usage_stats = Some(UsageStats(10, 9, 1))
    /\ Len(zap.nodes) = 3
    /\ ErrorLoopFlags = {}

\* C14: for a workflow with usage stats where total_runs > 0 and
\* error_rate > 10, detect_error_loop returns one finding with severity high if
\* error_rate > 50 and medium otherwise (exactly 50 is medium), confidence
\* high, is_fallback false, and monthly savings = error_count x number of
\* steps x cost-per-unit; {total_runs: 20, error_count: 12} gives severity high
\* and confidence high.
C14_ErrorLoopSeverityAndSavings ==
    flags # None =>
        /\ (HasTelemetry(zap)
            /\ zap.usage_stats[1].error_count * 100 > 10 * zap.usage_stats[1].total_runs)
           => LET stats == zap.usage_stats[1]
              IN  /\ Cardinality(ErrorLoopFlags) = 1
                  /\ \A i \in ErrorLoopFlags :
                        /\ flags[1][i].severity =
                              IF stats.error_count * 100 > 50 * stats.total_runs
                              THEN "high" ELSE "medium"
                        /\ flags[1][i].confidence = "high"
                        /\ flags[1][i].is_fallback = FALSE
                        /\ flags[1][i].estimated_monthly_savings
                              = stats.error_count * Len(zap.nodes) * price_per_task
        /\ zap.usage_stats = Some(UsageStats(20, 8, 12))
           => \A i \in ErrorLoopFlags :
                 flags[1][i].severity = "high" /\ flags[1][i].confidence = "high"

C14_Witness ==
    /\ flags # None
    /\ zap.usage_stats = Some(UsageStats(10, 5, 5))
    /\ Len(zap.nodes) = 2
    /\ \E i \in ErrorLoopFlags :
          flags[1][i].severity = "medium" /\ flags[1][i].estimated_monthly_savings > 0

\* ------------------------------------------------------------------------
\* SpecBatch: parse_batch_audit on an archive whose zapfile.json holds up to
\* MaxZaps workflows (ids may repeat) and a list of up to MaxIds ids (ids may
\* repeat, and may name no workflow of the export)
\* ------------------------------------------------------------------------
MaxZaps == 3
MaxIds == 3

BatchZapIds == {7, 8, 9}

\* Step chains with a polling trigger and a late filter, with a late filter
\* only, and with no finding at all
BatchChains ==
    { <<Node(1, None, 1), Node(2, Some(1), 3), Node(3, Some(2), 4)>>,
      <<Node(1, None, 2), Node(2, Some(1), 3), Node(3, Some(2), 4)>>,
      <<Node(1, None, 2), Node(2, Some(1), 3)>> }

BatchZaps ==
    {[id |-> id, title |-> "Zap", status |-> STR_on, nodes |-> nodes, usage_stats |-> None] :
        id \in BatchZapIds, nodes \in BatchChains}

InitBatch ==
    /\ call = None
    /\ outcome = None
    /\ IdlePricing /\ IdleDetect /\ IdleWalk /\ IdleRuns /\ IdleReport

BatchAudit ==
    /\ call = None
    /\ \E n \in 0..MaxZaps, m \in 1..MaxIds, overflow_checks \in BOOLEAN :
       \E zaps \in [1..n -> BatchZaps], zap_ids \in [1..m -> BatchZapIds] :
          LET zip_data == Some(<<File(STR_zapfile_json, TRUE, TRUE, JsonText(zaps))>>)
          IN  /\ call' = Some([entry |-> "parse_batch_audit", zip_data |-> zip_data,
                               zap_ids_js |-> Some(zap_ids), plan_str |-> STR_team,
                               actual_usage |-> 750, overflow_checks |-> overflow_checks])
              /\ outcome' = Some(parse_batch_audit(zip_data, Some(zap_ids), STR_team, 750,
                                                   overflow_checks))
    /\ UNCHANGED Unrelated

NextBatch == BatchAudit

SpecBatch == InitBatch /\ [][NextBatch]_vars

FindingKinds == {"polling_trigger", "late_filter_placement", "error_loop"}

BatchReturned ==
    /\ outcome # None
    /\ ~outcome[1].raised
    /\ outcome[1].value.kind = "BatchParseResult"

\* The ids of the workflows of the export that the request names and that have
\* a finding of this kind
AffectedWorkflows(c, kind) ==
    LET zaps == c.zip_data[1][1].content.zaps
    IN  {zaps[i].id : i \in {j \in 1..Len(zaps) :
            /\ zaps[j].id \in SeqToSet(c.zap_ids_js[1])
            /\ \E f \in SeqToSet(detect_efficiency_flags(<<zaps[j]>>,
                                                         default_fallback.cost_per_task)) :
                  f.flag_type = kind}}

PatternsOfKind(kind) ==
    {j \in 1..Len(outcome[1].value.patterns) :
        outcome[1].value.patterns[j].pattern_type = kind}

\* C15: a pattern for a finding kind is emitted iff at least 3 distinct
\* workflows have a finding of that kind: exactly 3 such workflows give one
\* pattern with affected_count = 3 whose affected_zap_ids are those 3 distinct
\* workflows, and 2 workflows never give a pattern - for every batch request,
\* including one whose id list names the same workflow more than once or an
\* export containing repeated workflow ids.
C15_PatternNeedsThreeWorkflows ==
    BatchReturned =>
        \A kind \in FindingKinds :
            LET affected == AffectedWorkflows(call[1], kind)
            IN  /\ (PatternsOfKind(kind) # {}) <=> (Cardinality(affected) >= 3)
                /\ Cardinality(PatternsOfKind(kind)) <= 1
                /\ \A j \in PatternsOfKind(kind) :
                      LET pattern == outcome[1].value.patterns[j]
                      IN  /\ pattern.affected_count = Cardinality(affected)
                          /\ Len(pattern.affected_zap_ids) = Cardinality(affected)
                          /\ SeqToSet(pattern.affected_zap_ids) = affected

\* ------------------------------------------------------------------------
\* SpecRank: rank_opportunities applied to the flags of a list of findings.
\* The flags carry
\*   - up to MaxRanked savings drawn from two values (ties), or
\*   - up to MaxDistinct pairwise distinct savings, in every rotation,
\* and are spread over the findings one or three to a finding.
\* ------------------------------------------------------------------------
MaxRanked == 12
MaxDistinct == 15

SavingsSamples == {0, 7350}

FlagCodes == <<"LateFilter", "FormatterChain", "TaskStepCostInflation">>

\* The i-th flag of the input, when the findings hold `per` flags each
RankInputFlag(values, per, i) ==
    [code |-> FlagCodes[((i - 1) % per) + 1], severity |-> "Medium", confidence |-> "High",
     impact |-> [estimated_monthly_savings_usd |-> values[i],
                 estimated_annual_savings_usd |-> values[i] * 12],
     meta |-> [is_fallback |-> FALSE]]

\* The findings that hold the flags of these savings, `per` flags to a finding
RankInputFindings(values, per) ==
    [k \in 1..((Len(values) + per - 1) \div per) |->
        [zap_id |-> u64_to_string(k),
         flags |-> [j \in 1..(IF k * per <= Len(values) THEN per
                              ELSE Len(values) - (k - 1) * per) |->
                       RankInputFlag(values, per, (k - 1) * per + j)]]]

RankCall(values, per) ==
    Some([entry |-> "rank_opportunities", values |-> values, per |-> per,
          findings |-> RankInputFindings(values, per)])

InitRank ==
    /\ \E per \in {1, 3} :
          \/ \E n \in 0..MaxRanked : \E values \in [1..n -> SavingsSamples] :
                call = RankCall(values, per)
          \/ \E n \in 1..MaxDistinct : \E shift \in 0..(n - 1) :
                call = RankCall([i \in 1..n |-> (((i + shift) % n) + 1) * 1000], per)
    /\ outcome = None
    /\ IdlePricing /\ IdleDetect /\ IdleWalk /\ IdleRuns /\ IdleReport

RankOpportunities ==
    /\ outcome = None
    /\ outcome' = Some(rank_opportunities(call[1].findings))
    /\ UNCHANGED <<call, plan, actual_usage, pricing, zap, price_per_task, flags,
                   ordered_nodes, current_id, pc, first_run, second_run, report, validation, gate>>

NextRank == RankOpportunities

SpecRank == InitRank /\ [][NextRank]_vars

\* The position in the input of the flag that a ranked entry was made from
RankedFrom(c, entry) ==
    {i \in 1..Len(c.values) :
        /\ entry.zap_id = u64_to_string(((i - 1) \div c.per) + 1)
        /\ entry.flag_code = FlagCodes[((i - 1) % c.per) + 1]
        /\ entry.estimated_monthly_savings_usd = c.values[i]}

\* C16: rank_opportunities, given N flags over all findings, returns exactly
\* min(10, N) entries whose ranks are 1..min(10, N) in list order, with monthly
\* savings non-increasing by rank (strictly decreasing when all values are
\* distinct); every entry is one of the input flags, no omitted flag has larger
\* savings than an included one, and flags with equal savings keep their input
\* order.
C16_RankTopTenBySavings ==
    outcome # None =>
        LET c == call[1]
            ranked == outcome[1]
            N == Len(c.values)
            from == [k \in 1..Len(ranked) |-> RankedFrom(c, ranked[k])]
            included == UNION {from[k] : k \in 1..Len(ranked)}
        IN  /\ Len(ranked) = (IF N < 10 THEN N ELSE 10)
            /\ \A k \in 1..Len(ranked) :
                  /\ ranked[k].rank = k
                  /\ Cardinality(from[k]) = 1
                  /\ \A l \in (k + 1)..Len(ranked) :
                        /\ ranked[k].estimated_monthly_savings_usd
                              >= ranked[l].estimated_monthly_savings_usd
                        /\ from[k] # from[l]
                        /\ (ranked[k].estimated_monthly_savings_usd
                               = ranked[l].estimated_monthly_savings_usd)
                           => \A i \in from[k], j \in from[l] : i < j
                  /\ \A j \in (1..N) \ included :
                        /\ c.values[j] <= ranked[k].estimated_monthly_savings_usd
                        /\ c.values[j] = ranked[k].estimated_monthly_savings_usd
                           => \A i \in from[k] : i < j
            /\ (\A i, j \in 1..N : c.values[i] = c.values[j] => i = j)
               => \A k \in 1..(Len(ranked) - 1) :
                     ranked[k].estimated_monthly_savings_usd
                        > ranked[k + 1].estimated_monthly_savings_usd

C16_Witness ==
    /\ outcome # None
    /\ Len(call[1].values) = 15
    /\ call[1].values[1] = 8000
    /\ Len(outcome[1]) = 10
    /\ outcome[1][1].estimated_monthly_savings_usd = 15000
    /\ outcome[1][10].estimated_monthly_savings_usd = 6000

\* C17: for every finding produced by any detector, and for the same finding
\* after conversion into the v1 report schema, estimated annual savings equal
\* estimated monthly savings x 12 exactly.
C17_AnnualIsTwelveTimesMonthly ==
    flags # None =>
        \A i \in 1..Len(flags[1]) :
            LET old_flag == flags[1][i]
                impact == convert_efficiency_flag(old_flag).impact
            IN  /\ old_flag.estimated_annual_savings = old_flag.estimated_monthly_savings * 12
                /\ impact.estimated_monthly_savings_usd = old_flag.estimated_monthly_savings
                /\ impact.estimated_annual_savings_usd
                      = impact.estimated_monthly_savings_usd * 12

C17_Witness ==
    /\ flags # None
    /\ \A kind \in FindingKinds :
          \E i \in FlagsOfType(kind) :
             /\ flags[1][i].estimated_monthly_savings > 0
             /\ convert_efficiency_flag(flags[1][i]).impact.estimated_annual_savings_usd
                   > flags[1][i].estimated_monthly_savings

\* ------------------------------------------------------------------------
\* SpecTiers: resolve and validate_pricing_tiers over the tier tables the
\* module may be built with: the shipped pair, and every pair of tables of up
\* to MaxTiers tiers drawn from TierSamples (empty tables, unsorted tables,
\* repeated capacities and a tier of capacity 0 among them).
\* ------------------------------------------------------------------------
MaxTiers == 3

TierSamples == {<<0, 1999>>, <<750, 1999>>, <<2000, 4900>>}

TableSamples == UNION {[1..n -> TierSamples] : n \in 0..MaxTiers}

TierUsageSamples == {0, 750, 751, 5000}

Tables(professional, team) ==
    Some([entry |-> "ZapierPricing", professional |-> professional, team |-> team])

InitTiers ==
    /\ \/ call = Tables(PROFESSIONAL, TEAM)
       \/ \E professional \in TableSamples, team \in TableSamples :
             call = Tables(professional, team)
    /\ plan \in ZapierPlan
    /\ actual_usage \in TierUsageSamples
    /\ pricing = None
    /\ validation = None
    /\ outcome = Idle /\ report = Idle /\ gate = Idle
    /\ IdleDetect /\ IdleWalk /\ IdleRuns

ValidatePricingTiers ==
    /\ validation = None
    /\ validation' = Some(ValidateTiers(call[1].professional, call[1].team))
    /\ UNCHANGED <<call, outcome, plan, actual_usage, pricing, zap, price_per_task, flags,
                   ordered_nodes, current_id, pc, first_run, second_run, report, gate>>

ResolveTier ==
    /\ pricing = None
    /\ pricing' = Some(ResolveIn(IF plan = "Professional" THEN call[1].professional
                                 ELSE call[1].team,
                                 plan, actual_usage, FALSE))
    /\ UNCHANGED <<call, outcome, plan, actual_usage, zap, price_per_task, flags,
                   ordered_nodes, current_id, pc, first_run, second_run, report, validation, gate>>

NextTiers == ValidatePricingTiers \/ ResolveTier

SpecTiers == InitTiers /\ [][NextTiers]_vars

\* C18: for every plan and every actual_usage, the resolved cost_per_task
\* equals tier_price / tier_tasks when tier_tasks > 0 and 0 when tier_tasks is
\* 0; it is never negative, NaN or infinite.
C18_CostPerTaskIsFinite ==
    (pricing # None /\ ~pricing[1].panicked) =>
        LET r == pricing[1]
        IN  /\ r.tier_tasks > 0 => r.cost_per_task = (r.tier_price * 1000) \div r.tier_tasks
            /\ r.tier_tasks = 0 => r.cost_per_task = 0
            /\ ~is_nan(r.cost_per_task)
            /\ ~is_infinite(r.cost_per_task)
            /\ r.cost_per_task >= 0

C18_Witness ==
    /\ pricing # None
    /\ ~pricing[1].panicked
    /\ pricing[1].tier_tasks = 0
    /\ pricing[1].tier_price > 0
    /\ pricing[1].cost_per_task = 0

StrictlyAscending(tiers) == \A i \in 1..(Len(tiers) - 1) : tiers[i][1] < tiers[i + 1][1]

\* C19: the shipped Professional and Team tier tables are each non-empty and
\* strictly ascending by capacity, so validate_pricing_tiers returns Ok;
\* validate_pricing_tiers returns an error exactly when some plan's table is
\* empty or has an adjacent pair of tiers whose capacities are not strictly
\* ascending.
C19_ValidateTiersExactly ==
    /\ PROFESSIONAL # <<>> /\ StrictlyAscending(PROFESSIONAL)
    /\ TEAM # <<>> /\ StrictlyAscending(TEAM)
    /\ validate_pricing_tiers.is_ok
    /\ validation # None =>
          /\ ~validation[1].is_ok
                <=> \E tiers \in {call[1].professional, call[1].team} :
                       tiers = <<>> \/ ~StrictlyAscending(tiers)
          /\ (call[1].professional = PROFESSIONAL /\ call[1].team = TEAM)
                => validation[1].is_ok

C19_Witness ==
    /\ validation # None
    /\ ~validation[1].is_ok
    /\ call[1].professional = <<<<750, 1999>>, <<2000, 4900>>>>
    /\ call[1].team = <<<<750, 1999>>, <<750, 1999>>>>

\* ------------------------------------------------------------------------
\* Node::deserialize and Zap::deserialize on the steps of an export document
\* ------------------------------------------------------------------------
\* serde_json::Value as far as the deserializers look at it
JsonU64(n) == [as_u64 |-> Some(n), as_str |-> None]
JsonStr(s) == [as_u64 |-> None, as_str |-> Some(s)]

\* The byte of a character; the strings of the model are made of digits,
\* ASCII letters, "_" and "+"
ByteValue(c) ==
    IF is_digit(c) THEN 48 + DigitValue(c)
    ELSE IF is_lowercase(c) THEN 96 + (CHOOSE i \in 1..Len(LowerChars) : LowerChars[i] = c)
    ELSE IF is_uppercase(c) THEN 64 + (CHOOSE i \in 1..Len(UpperChars) : UpperChars[i] = c)
    ELSE IF c = "_" THEN 95
    ELSE 43

\* s.bytes().map(|b| b as u64).sum()
RECURSIVE ByteSum(_)
ByteSum(s) == IF s = <<>> THEN 0 ELSE ByteValue(Head(s)) + ByteSum(Tail(s))

\* Node::deserialize of a step object: the "id" and "parent_id" members are
\* None when absent, else Some(value); the other members are those of the
\* step kind
Node_deserialize(value) ==
    LET id == IF value.id = None THEN 0
              ELSE IF value.id[1].as_u64 # None THEN value.id[1].as_u64[1]
              ELSE IF value.id[1].as_str # None
              THEN LET parsed == parse_u64(value.id[1].as_str[1])
                   IN  IF parsed # None THEN parsed[1]
                       ELSE ByteSum(value.id[1].as_str[1])
              ELSE 0
        parent_id == IF value.parent_id = None THEN None
                     ELSE value.parent_id[1].as_u64
    IN  Node(id, parent_id, value.kind)

\* Zap::deserialize of a workflow with these steps: nodes.insert(index, node)
\* for each step, the map then iterating in the order o; keys[k] is the index
\* of the step that the k-th node was made from
Zap_deserialize(steps, o) ==
    [id |-> 7, nodes |-> [k \in 1..Len(steps) |-> Node_deserialize(steps[o[k]])],
     usage_stats |-> None, keys |-> o]

\* ------------------------------------------------------------------------
\* SpecNode: a workflow of up to MaxJsonSteps steps is deserialized and handed
\* to the detectors.  The first step is a polling trigger, the later ones
\* are alternately a write step and a filter; every step has a number or a
\* string as its id and no parent reference or the id of any other step
\* (no step names itself as its parent, so the chain walk ends).
\* ------------------------------------------------------------------------
MaxJsonSteps == 3

IdSamples == {JsonU64(1), JsonStr(<<"2">>), JsonStr(<<"a", "b">>), JsonStr(<<"b", "a">>)}

KindOfStep(i) == IF i = 1 THEN 1 ELSE IF i % 2 = 0 THEN 3 ELSE 4

StepValues(i) ==
    {[id |-> Some(id), parent_id |-> parent_id, kind |-> KindOfStep(i)] :
        id \in IdSamples, parent_id \in {None} \cup {Some(p) : p \in IdSamples}}

InitNode ==
    /\ \E n \in 0..MaxJsonSteps : \E steps \in [1..n -> UNION {StepValues(i) : i \in 1..n}] :
          /\ \A i \in 1..n : steps[i] \in StepValues(i)
          /\ \A i \in 1..n :
                \/ steps[i].parent_id = None
                \/ /\ steps[i].parent_id # steps[i].id
                   /\ \E j \in 1..n : j # i /\ steps[j].id = steps[i].parent_id
          /\ call = Some([entry |-> "Zap::deserialize", steps |-> steps])
    /\ pc = "from_value"
    /\ zap = Idle
    /\ flags = None
    /\ price_per_task = default_fallback.cost_per_task
    /\ outcome = Idle /\ ordered_nodes = Idle /\ current_id = Idle
    /\ IdlePricing /\ IdleRuns /\ IdleReport

DeserializeZap ==
    /\ pc = "from_value"
    /\ \E o \in Orders(Len(call[1].steps)) : zap' = Zap_deserialize(call[1].steps, o)
    /\ pc' = "detect"
    /\ UNCHANGED <<call, outcome, plan, actual_usage, pricing, price_per_task, flags,
                   ordered_nodes, current_id, first_run, second_run, report, validation, gate>>

DetectOnDeserialized ==
    /\ pc = "detect"
    /\ flags' = Some(detect_efficiency_flags(<<zap>>, price_per_task))
    /\ pc' = "done"
    /\ UNCHANGED <<call, outcome, plan, actual_usage, pricing, zap, price_per_task,
                   ordered_nodes, current_id, first_run, second_run, report, validation, gate>>

NextNode == DeserializeZap \/ DetectOnDeserialized

SpecNode == InitNode /\ [][NextNode]_vars

\* The position, in the step map, of the node made from step i
NodeOfStep(z, i) == CHOOSE k \in 1..Len(z.nodes) : z.keys[k] = i

\* C20: when step identifiers are strings, a numeric string maps to its
\* integer value and a non-numeric string to the sum of its byte values, and
\* parent linkage still works: a step whose parent reference is the string
\* identifier of another step gets that step's numeric id as its parent_id,
\* so exactly the steps without a parent reference are entry steps and the
\* chain walk links child to parent.
C20_StringIdsKeepParentLinks ==
    pc \in {"detect", "done"} =>
        LET steps == call[1].steps
            node(i) == zap.nodes[NodeOfStep(zap, i)]
        IN  /\ \A i \in 1..Len(steps) :
                  steps[i].id[1].as_str # None =>
                      LET s == steps[i].id[1].as_str[1]
                      IN  node(i).id = IF \A c \in 1..Len(s) : is_digit(s[c])
                                       THEN DecimalValue(s, 0) ELSE ByteSum(s)
            /\ \A i, j \in 1..Len(steps) :
                  (/\ i # j
                   /\ steps[i].parent_id # None
                   /\ steps[i].parent_id[1].as_str # None
                   /\ steps[i].parent_id[1] = steps[j].id[1])
                  => node(i).parent_id = Some(node(j).id)
            /\ \A i \in 1..Len(steps) :
                  (node(i).parent_id = None) <=> (steps[i].parent_id = None)

\* ------------------------------------------------------------------------
\* SpecPolling: the detectors applied to a workflow whose read-type entry
\* step runs on an integration of the polling table
\* ------------------------------------------------------------------------
MaxPollSteps == 2

\* The endings an integration identifier carries after the integration's name
IdentifierSuffixes ==
    { <<"C", "L", "I", "A", "P", "I", "@", "1", ".", "8", ".", "0">>,
      <<"A", "P", "I", "@", "1", ".", "8", ".", "0">>,
      <<"@", "1", ".", "8", ".", "0">>,
      <<>> }

STR_WordPressCLIAPI == <<"W", "o", "r", "d", "P", "r", "e", "s", "s", "C", "L", "I", "A", "P", "I", "@", "1", ".", "8", ".", "0">>

\* The entry step of the workflow: a read-type step without a parent
PollingTrigger(selected_api) ==
    [id |-> 1, parent_id |-> None, type_of |-> "read", selected_api |-> selected_api,
     action |-> <<"n", "e", "w">>, title |-> None]

InitPolling ==
    /\ \E a \in 1..Len(polling_apps) : \E suffix \in IdentifierSuffixes :
       \E n \in 1..MaxPollSteps : \E stats \in StatsInputs :
          zap = [id |-> 7,
                 nodes |-> [i \in 1..n |-> IF i = 1 THEN PollingTrigger(polling_apps[a] \o suffix)
                                           ELSE Node(i, Some(i - 1), 3)],
                 usage_stats |-> stats]
    /\ price_per_task = default_fallback.cost_per_task
    /\ flags = None
    /\ IdleBoundary /\ IdlePricing /\ IdleWalk /\ IdleRuns /\ IdleReport

NextPolling == DetectEfficiencyFlags

SpecPolling == InitPolling /\ [][NextPolling]_vars

\* The polling-table entry the workflow's entry step was built from
TriggerOnTableEntry(a) ==
    \E suffix \in IdentifierSuffixes : zap.nodes[1].selected_api = polling_apps[a] \o suffix

\* C21: a workflow whose read-type entry step runs on any integration of the
\* polling table (its identifier normalised by parse_app_name) gets a
\* polling_trigger finding; so does the workflow on "WordPressCLIAPI@1.8.0",
\* whose identifier normalises to the table entry "WordPress".
C21_EveryPollingAppFlagged ==
    flags # None =>
        /\ \A a \in 1..Len(polling_apps) :
              TriggerOnTableEntry(a) => FlagsOfType("polling_trigger") # {}
        /\ zap.nodes[1].selected_api = STR_WordPressCLIAPI =>
              parse_app_name(zap.nodes[1].selected_api) = polling_apps[2]

\* ------------------------------------------------------------------------
\* SpecCsv: parse_csv_files on the texts of one or two tables
\* ------------------------------------------------------------------------
MaxRows == 3

\* Header lines: with all columns, in another case, without a status column,
\* with a column that only starts with zap_id, without message and time columns
HeaderSamples ==
    { <<STR_zap_id, STR_status, STR_error_message, STR_timestamp>>,
      <<<<"Z", "a", "p", "_", "I", "D">>, <<"S", "t", "a", "t", "u", "s">>, <<"E", "r", "r", "o", "r">>, <<"T", "i", "m", "e", "s", "t", "a", "m", "p">>>>,
      <<STR_zap_id, <<"s", "t", "a", "t", "e">>, STR_error, STR_timestamp>>,
      <<<<"z", "a", "p", "_", "i", "d", "s">>, STR_status, STR_error, STR_timestamp>>,
      <<STR_zap_id, STR_status, <<"n", "o", "t", "e", "s">>, <<"t", "i", "m", "e">>>> }

\* Rows: zap id, status, error message, timestamp; the last row is short
RowSamples ==
    { <<<<"7">>, STR_success, <<>>, <<"2">>>>,
      <<<<"7">>, <<"E", "r", "r", "o", "r">>, ErrorMessages[1], <<"1">>>>,
      <<<<"7">>, STR_failed, ErrorMessages[2], <<"3">>>>,
      <<<<"8">>, STR_failure, <<>>, <<>>>>,
      <<<<"n", "/", "a">>, STR_error, ErrorMessages[1], <<"1">>>>,
      <<<<"7">>, <<"f", "i", "l", "t", "e", "r", "e", "d">>, <<>>, <<"2">>>>,
      <<<<"7">>>> }

\* The texts read after the first table: none, a second task history, a text
\* without a header line
MoreTexts ==
    { <<>>,
      <<CsvText(<<STR_status, STR_zap_id, STR_error>>,
                << <<STR_error, <<"8">>, ErrorMessages[2]>>, <<STR_success, <<"7">>, <<>>>> >>)>>,
      <<OtherText>> }

InitCsv ==
    /\ \E headers \in HeaderSamples : \E n \in 0..MaxRows : \E records \in [1..n -> RowSamples] :
       \E more \in MoreTexts :
          call = Some([entry |-> "parse_csv_files",
                       csv_contents |-> <<CsvText(headers, records)>> \o more])
    /\ outcome = None
    /\ IdlePricing /\ IdleDetect /\ IdleWalk /\ IdleRuns /\ IdleReport

ParseCsvFiles ==
    /\ outcome = None
    /\ \E o \in Orders(Len(ErrorMessages)) :
          outcome' = Some(parse_csv_files_in(call[1].csv_contents,
                                             [i \in 1..Len(ErrorMessages) |-> ErrorMessages[o[i]]]))
    /\ UNCHANGED <<call, plan, actual_usage, pricing, zap, price_per_task, flags, ordered_nodes,
                   current_id, pc, first_run, second_run, report, validation, gate>>

NextCsv == ParseCsvFiles

SpecCsv == InitCsv /\ [][NextCsv]_vars

\* A table qualifies when one header is zap_id and one is status, in any case
Qualifies(csv) ==
    /\ \E i \in 1..Len(csv.headers) : to_lowercase(csv.headers[i]) = STR_zap_id
    /\ \E i \in 1..Len(csv.headers) : to_lowercase(csv.headers[i]) = STR_status

\* The fields of row r of table b under the first zap_id and status headers
IdField(b, r) ==
    LET csv == call[1].csv_contents[b]
        col == Position(csv.headers, STR_zap_id)
    IN  IF col <= Len(csv.records[r]) THEN Some(csv.records[r][col]) ELSE None

StatusField(b, r) ==
    LET csv == call[1].csv_contents[b]
        col == Position(csv.headers, STR_status)
    IN  IF col <= Len(csv.records[r]) THEN Some(to_lowercase(csv.records[r][col])) ELSE None

\* The well-formed rows of the qualifying tables: <<table, row>> with a
\* numeric workflow id and a status field
AcceptedRows ==
    {p \in UNION {{<<b, r>> : r \in 1..Len(call[1].csv_contents[b].records)} :
                     b \in {c \in 1..Len(call[1].csv_contents) :
                               Qualifies(call[1].csv_contents[c])}} :
        /\ IdField(p[1], p[2]) # None
        /\ parse_u64(IdField(p[1], p[2])[1]) # None
        /\ StatusField(p[1], p[2]) # None}

RowsOf(accepted, id) == {p \in accepted : parse_u64(IdField(p[1], p[2])[1]) = Some(id)}

IsErrorRow(p) == StatusField(p[1], p[2])[1] \in {STR_error, STR_failed, STR_failure}

\* C22: parse_csv_files always returns a map; a table without a zap_id or a
\* status header adds nothing, a row without a numeric workflow id is skipped
\* alone, and the counts of every workflow are those of exactly the
\* well-formed rows of the qualifying tables.
C22_AggregatesExactlyWellFormedRows ==
    outcome # None =>
        LET stats == outcome[1]
            accepted == AcceptedRows
        IN  /\ DOMAIN stats = {parse_u64(IdField(p[1], p[2])[1])[1] : p \in accepted}
            /\ \A id \in DOMAIN stats :
                  LET rows == RowsOf(accepted, id)
                  IN  /\ stats[id].total_runs = Cardinality(rows)
                      /\ stats[id].success_count =
                            Cardinality({p \in rows : StatusField(p[1], p[2])[1] = STR_success})
                      /\ stats[id].error_count = Cardinality({p \in rows : IsErrorRow(p)})

\* A table holds a row without a numeric id before a well-formed row, another
\* text has no header line, and the well-formed rows were counted
C22_Witness ==
    /\ outcome # None
    /\ Len(call[1].csv_contents) = 2
    /\ ~Qualifies(call[1].csv_contents[2])
    /\ \E r \in 1..Len(call[1].csv_contents[1].records) :
          /\ <<1, r>> \notin AcceptedRows
          /\ \E later \in (r + 1)..Len(call[1].csv_contents[1].records) : <<1, later>> \in AcceptedRows
    /\ 7 \in DOMAIN outcome[1]
    /\ outcome[1][7].total_runs = 2

\* C23: error_rate is error_count / total_runs * 100 when total_runs > 0 and
\* 0 otherwise, so it lies between 0 and 100 and is a finite number; guard_nan
\* maps NaN and the infinities to 0 and keeps every other value.
C23_ErrorRateIsBoundedPercentage ==
    /\ \A v \in {NaN, PosInf, NegInf} : guard_nan(v) = 0
    /\ \A v \in {0, 4250000} : guard_nan(v) = v
    /\ outcome # None =>
          \A id \in DOMAIN outcome[1] :
              LET stats == outcome[1][id]
              IN  /\ stats.error_rate.den > 0
                  /\ stats.total_runs > 0 =>
                        stats.error_rate.num * stats.total_runs
                            = stats.error_count * 100 * stats.error_rate.den
                  /\ stats.total_runs = 0 => stats.error_rate.num = 0
                  /\ 0 <= stats.error_rate.num
                  /\ stats.error_rate.num <= 100 * stats.error_rate.den

\* A workflow with failed and successful runs
C23_Witness ==
    /\ outcome # None
    /\ \E id \in DOMAIN outcome[1] :
          /\ outcome[1][id].error_count = 2
          /\ outcome[1][id].total_runs = 3
          /\ outcome[1][id].success_count = 1

\* The number of failed runs among the first m accepted rows of a workflow
ErrorsAmongFirst(rows, m) ==
    Cardinality({p \in rows :
                    /\ IsErrorRow(p)
                    /\ Cardinality({q \in rows :
                                       q[1] < p[1] \/ (q[1] = p[1] /\ q[2] <= p[2])}) <= m})

C30_UsageStatsCountsConsistent ==
    outcome # None =>
        \A id \in DOMAIN outcome[1] :
            LET stats == outcome[1][id]
            IN  /\ stats.total_runs >= 1
                /\ stats.total_runs = Cardinality(RowsOf(AcceptedRows, id))
                /\ stats.success_count + stats.error_count <= stats.total_runs
                /\ stats.max_streak <= stats.error_count
                /\ stats.max_streak = 0 <=> stats.error_count = 0
                /\ stats.most_common_error # None => stats.error_count > 0

\* Failures interrupted by a run that is neither a success nor a failure
C30_Witness ==
    /\ outcome # None
    /\ \E id \in DOMAIN outcome[1] :
          /\ outcome[1][id].error_count = 2
          /\ outcome[1][id].max_streak = 1
          /\ outcome[1][id].success_count = 0
          /\ outcome[1][id].total_runs = 3
          /\ outcome[1][id].most_common_error # None

\* The report of a call of analyze_zaps that returned
AnalyzeReturned ==
    /\ outcome # None
    /\ call[1].entry = "analyze_zaps"
    /\ ~outcome[1].raised

\* C24: downgrade_safe is true only when the actual-usage input, against
\* which the tier was resolved, is under 70% of the capacity of the resolved
\* tier and no paths feature is detected; with actual_usage at 70% of the
\* capacity or more, or with a paths step, it is false.
C24_DowngradeSafeOnlyBelowSeventyPercent ==
    AnalyzeReturned =>
        LET plan_analysis == outcome[1].value.json.plan_analysis
        IN  plan_analysis.downgrade_safe
                => /\ call[1].actual_usage * 10 < 7 * plan_analysis.plan_task_capacity.max
                   /\ ~plan_analysis.premium_features_detected.paths

\* The ids of the workflows of the export that the call's archive holds
\* (empty when the archive holds no readable export)
ExportIds ==
    IF call[1].zip_data = None THEN {}
    ELSE LET read == IF call[1].entry = "analyze_zaps"
                     THEN ScanAnalyze(call[1].zip_data[1], 1, NothingRead)
                     ELSE ScanArchive(call[1].zip_data[1], 1, NothingRead)
             parsed == from_str(read.zapfile_content)
         IN  IF read.error = None /\ read.found_zapfile /\ parsed.is_ok
             THEN {parsed.value[i].id : i \in 1..Len(parsed.value)} ELSE {}

\* The archive of the call holds a readable export with workflows
ExportReadable == ExportIds # {}

\* The ids of the workflows a returned report covers
AnalyzedIds ==
    IF call[1].entry = "analyze_zaps"
    THEN {outcome[1].value.json.per_zap_findings[i].zap_id :
             i \in 1..Len(outcome[1].value.json.per_zap_findings)}
    ELSE {u64_to_string(outcome[1].value.scope_metadata.analyzed_zap_summaries[i].id) :
             i \in 1..Len(outcome[1].value.scope_metadata.analyzed_zap_summaries)}

\* C25: for analyze_zaps and for parse_batch_audit, an empty or absent
\* selection means that every workflow of the export is analysed and the call
\* reports success; a non-empty selection restricts the analysis to exactly
\* the workflows of the export whose id is selected.
C25_EmptySelectionAnalyzesAll ==
    /\ (AnalyzeReturned /\ ExportReadable) =>
          LET selected_ids == SeqToSet(selected_ids_of(call[1].selected_zap_ids))
          IN  AnalyzedIds = IF selected_ids = {} THEN {u64_to_string(id) : id \in ExportIds}
                            ELSE {u64_to_string(id) : id \in ExportIds} \cap selected_ids
    /\ (outcome # None /\ call[1].entry = "parse_batch_audit" /\ ExportReadable
        /\ call[1].actual_usage <= 2000000 /\ ~call[1].overflow_checks) =>
          LET zap_ids == IF call[1].zap_ids_js = None THEN {}
                         ELSE SeqToSet(call[1].zap_ids_js[1])
          IN  /\ BatchReturned
              /\ AnalyzedIds = IF zap_ids = {} THEN {u64_to_string(id) : id \in ExportIds}
                               ELSE {u64_to_string(id) : id \in ExportIds \cap zap_ids}

\* C26: the confidence of a late-filter finding is high when the savings are
\* not a fallback estimate and are above zero, low when the savings are
\* exactly zero, and medium in every other case; exactly one of the three
\* applies to every finding.
C26_LateFilterConfidenceLevels ==
    flags # None =>
        \A i \in LateFilterFlags :
            LET flag == flags[1][i]
                is_high == ~flag.is_fallback /\ flag.estimated_monthly_savings > 0
                is_low == flag.estimated_monthly_savings = 0
            IN  /\ flag.confidence \in {"high", "low", "medium"}
                /\ flag.confidence = "high" <=> is_high
                /\ flag.confidence = "low" <=> is_low
                /\ flag.confidence = "medium" <=> (~is_high /\ ~is_low)
                /\ ~(is_high /\ is_low)

\* A late filter on a workflow without task history: an estimate above zero
C26_Witness ==
    /\ flags # None
    /\ zap.usage_stats = None
    /\ \E i \in LateFilterFlags :
          /\ flags[1][i].is_fallback
          /\ flags[1][i].estimated_monthly_savings > 0
          /\ flags[1][i].confidence = "medium"

\* ------------------------------------------------------------------------
\* SpecScore: calculate_efficiency_score on a list of flags
\* ------------------------------------------------------------------------
MaxScoreFlags == 4

ScoreFlagTypes == {"polling_trigger", "late_filter_placement", "error_loop", "formatter_chain"}

ScoreSeverities == {"low", "medium", "high"}

\* The two fields of an EfficiencyFlag that the score reads
ScoreFlag(flag_type, severity) == [flag_type |-> flag_type, severity |-> severity]

InitScore ==
    /\ \E n \in 0..MaxScoreFlags :
       \E types \in [1..n -> ScoreFlagTypes], severities \in [1..n -> ScoreSeverities] :
          call = Some([entry |-> "calculate_efficiency_score",
                       flags |-> [i \in 1..n |-> ScoreFlag(types[i], severities[i])]])
    /\ outcome = None
    /\ IdlePricing /\ IdleDetect /\ IdleWalk /\ IdleRuns /\ IdleReport

CalculateEfficiencyScore ==
    /\ outcome = None
    /\ outcome' = Some(calculate_efficiency_score(call[1].flags))
    /\ UNCHANGED <<call, plan, actual_usage, pricing, zap, price_per_task, flags, ordered_nodes,
                   current_id, pc, first_run, second_run, report, validation, gate>>

NextScore == CalculateEfficiencyScore

SpecScore == InitScore /\ [][NextScore]_vars

\* The number of flags of the call with this type and severity
ScoreFlagCount(flag_type, severity) ==
    Cardinality({i \in 1..Len(call[1].flags) :
                    call[1].flags[i] = ScoreFlag(flag_type, severity)})

\* C28: calculate_efficiency_score returns a value in 0..100: 100 less 10 for
\* each medium polling_trigger, 25 for each high late_filter_placement, 30 for
\* each high error_loop and 20 for each medium error_loop, every other pair
\* of type and severity ignored, and 0 when that is below 0.
C28_EfficiencyScoreInRange ==
    outcome # None =>
        LET raw == 100 - 10 * ScoreFlagCount("polling_trigger", "medium")
                       - 25 * ScoreFlagCount("late_filter_placement", "high")
                       - 30 * ScoreFlagCount("error_loop", "high")
                       - 20 * ScoreFlagCount("error_loop", "medium")
        IN  /\ outcome[1] \in 0..100
            /\ outcome[1] = IF raw < 0 THEN 0 ELSE raw

\* Four high error loops: 100 - 120 is held at 0
C28_Witness ==
    /\ outcome = Some(0)
    /\ ScoreFlagCount("error_loop", "high") = 4

\* C29: every successful result of parse_batch_audit, whatever the id list
\* (ids that the export does not hold, repeated ids, more ids than
\* workflows), has analyzed_count + excluded_count = total_zaps_in_account,
\* analyzed_count = the number of analyzed_zap_summaries = zap_count and
\* excluded_count = the number of excluded_zap_summaries, and computing
\* excluded_count neither underflows nor aborts the call.
C29_ScopeCountsAgree ==
    outcome # None =>
        /\ ~outcome[1].raised
        /\ LET result == outcome[1].value
               scope == result.scope_metadata
           IN  /\ scope.excluded_count >= 0
               /\ scope.analyzed_count + scope.excluded_count = scope.total_zaps_in_account
               /\ scope.analyzed_count = Len(scope.analyzed_zap_summaries)
               /\ scope.analyzed_count = result.zap_count
               /\ scope.excluded_count = Len(scope.excluded_zap_summaries)

====
